---- MODULE Spec2Model ----
(***************************************************************************)
(* State-machine model of server/main.py: the in-memory market store       *)
(* (entries, prev_close, overview), the upstream frame handlers, the       *)
(* debounced snapshot broadcaster with its client registry, and the hourly *)
(* index-candle aggregator with its optional redis persistence.            *)
(*                                                                         *)
(* Numbers.  Prices, volumes and timestamps are integers.  A percentage    *)
(* (a Python float) is a fixed-point integer counting units of 0.00001 %,  *)
(* so round(x, 4) is a real rounding to a multiple of 10 units.            *)
(* An optional value (None or a value) is the sequence <<>> or <<v>>.      *)
(***************************************************************************)
EXTENDS Integers, Sequences, FiniteSets, TLC

VARIABLES
    symbols,                \* main.py:64  the de-duplicated symbol universe
    entries,                \* main.py:65  symbol -> entry
    prev_close,             \* main.py:66  (symbol, TF) -> previous closed bar close
    overview,               \* main.py:67  TF -> gainers / losers
    clients,                \* main.py:69  registry of connected downstream sockets
    dirty,                  \* main.py:71  _dirty_event
    redis_client,           \* main.py:73  "none" or "up"
    index_history,          \* main.py:74  closed index candles
    index_prev_close_value, \* main.py:75
    index_active_candle,    \* main.py:76  <<>> or <<candle>>
    redis_zset,             \* the sorted set INDEX_REDIS_KEY held by the backend
    now,                    \* the wall clock read by now_ms()
    bpc,                    \* position of debounce_broadcaster
    round,                  \* the round in flight: payload build, targets, results
    socks,                  \* downstream socket -> "none", "open" or "gone"
    timer,                  \* milliseconds left of the broadcaster's debounce sleep
    wire,                   \* what the step just taken built or put on the wire
    obs,                    \* mark_dirty calls and time since the last build
    ipc,                    \* position of the index task inside its tick
    ilocals,                \* locals of maybe_capture_index_candle across an await
    last,                   \* the upstream frame handled last, and its outcome
    lastK,                  \* (symbol, TF) -> the last two klines applied to that pair
    nsteps                  \* number of environment inputs consumed (bounds the run)

vars == <<symbols, entries, prev_close, overview, clients, dirty, redis_client,
          index_history, index_prev_close_value, index_active_candle, redis_zset,
          now, bpc, round, socks, timer, wire, obs, ipc, ilocals, last, lastK,
          nsteps>>

storeVars == <<symbols, entries, prev_close, overview>>
indexVars == <<redis_client, index_history, index_prev_close_value,
               index_active_candle, redis_zset, ipc, ilocals>>
bcastVars == <<clients, bpc, round, socks, timer, wire, obs>>
ghostVars == <<last, lastK, nsteps>>

(***************************************************************************)
(* Configuration (main.py:26-52)                                           *)
(***************************************************************************)
\* The model carries two of the six timeframes; every loop over TF_ORDER in
\* the code is a loop over this sequence.
TF_ORDER == <<"M5", "D1">>
TFS == {TF_ORDER[i] : i \in 1..Len(TF_ORDER)}

TF_INTERVALS == [tf \in TFS |-> IF tf = "M5" THEN "5" ELSE "D"]

INTERVAL_TO_TF(interval) ==
    IF \E tf \in TFS : TF_INTERVALS[tf] = interval
    THEN <<CHOOSE tf \in TFS : TF_INTERVALS[tf] = interval>>
    ELSE <<>>

INDEX_SLOT_MS == 3600000
INDEX_BASE_VALUE == 0

(***************************************************************************)
(* Optional values and raw JSON fields                                     *)
(***************************************************************************)
None == <<>>
Some(v) == <<v>>
IsNone(x) == x = <<>>
Val(x) == x[1]

\* A field of a decoded frame: a number (or a numeric string), a string that
\* is no number, or an absent key (dict.get gives None).
Num(n) == [t |-> "num", v |-> n]
Bad == [t |-> "bad", v |-> 0]
Missing == [t |-> "missing", v |-> 0]

\* float(x) / int(x): raise on None and on a non-numeric string.
Parses(raw) == raw.t = "num"
\* Python truthiness of a field, as used by `a or b`.
Truthy(raw) == raw.t = "bad" \/ (raw.t = "num" /\ raw.v # 0)

(***************************************************************************)
(* Utilities (main.py:79-115)                                              *)
(***************************************************************************)
make_metric(tf) ==
    [timeframe |-> tf, openTime |-> 0, openPrice |-> None, prevClose |-> None,
     baselinePrice |-> None, changePercent |-> None,
     closeToClosePercent |-> None, volume |-> 0, turnover |-> 0, updatedAt |-> 0]

new_entry(sym) ==
    [symbol |-> sym, baseCoin |-> "base", quoteCoin |-> "USDT",
     lastPrice |-> None, lastPriceUpdatedAt |-> 0,
     metrics |-> [tf \in TFS |-> make_metric(tf)]]

\* (c - base) / base * 100.0 in units of 0.00001 %
Pct(c, base) == ((c - base) * 10000000) \div base

(***************************************************************************)
(* Store updates (main.py:118-167, 438-456)                                *)
(*                                                                         *)
(* A handler is an operator from the store before the call to a record     *)
(* holding the store after it and whether the call raised.                 *)
(***************************************************************************)
\* set_from_kline: the five fields are parsed first (lines 130-134), the
\* metric is looked up (line 136, KeyError for an unknown symbol) and only
\* then written.
set_from_kline(ents, pclose, sym, tf, k, t) ==
    IF ~(Parses(k.start) /\ Parses(k.open) /\ Parses(k.close)
         /\ Parses(k.volume) /\ Parses(k.turnover))
    THEN [raised |-> TRUE, entries |-> ents]
    ELSE IF sym \notin DOMAIN ents
    THEN [raised |-> TRUE, entries |-> ents]
    ELSE
      LET o == k.open.v
          c == k.close.v
          m0 == ents[sym].metrics[tf]
          m1 == [m0 EXCEPT !.openTime = k.start.v,
                           !.openPrice = Some(o),
                           !.baselinePrice = Some(o),
                           !.volume = k.volume.v,
                           !.turnover = k.turnover.v,
                           !.updatedAt = t]
          m2 == IF o > 0 THEN [m1 EXCEPT !.changePercent = Some(Pct(c, o))]
                ELSE m1
          base == pclose[<<sym, tf>>]
          m3 == IF ~IsNone(base) /\ Val(base) > 0
                THEN [m2 EXCEPT !.prevClose = base,
                                !.closeToClosePercent = Some(Pct(c, Val(base)))]
                ELSE m2
      IN [raised |-> FALSE,
          entries |-> [ents EXCEPT ![sym].metrics[tf] = m3]]

\* A roll keyed by the symbol alone.
roll_prev_close_of_symbol(pclose, sym, tf, close_price) ==
    [p \in DOMAIN pclose |->
        IF p[1] = sym THEN Some(close_price) ELSE pclose[p]]

\* roll_prev_close_on_close, lines 154-155.
roll_prev_close_on_close(pclose, sym, tf, close_price) ==
    [pclose EXCEPT ![<<sym, tf>>] = Some(close_price)]

\* An update_ticker that makes an entry for a symbol it does not know.
update_ticker_creating(ents, sym, data, t) ==
    [s \in DOMAIN ents \cup {sym} |->
        IF s \in DOMAIN ents THEN ents[s] ELSE new_entry(sym)]

\* update_ticker: the two writes sit in one suppress block, lastPrice first.
update_ticker(ents, sym, data, t) ==
    IF sym \notin DOMAIN ents THEN ents
    ELSE
      LET lp == data.lastPrice
          ts == IF Truthy(data.ts) THEN data.ts
                ELSE IF Truthy(data.timestamp) THEN data.timestamp
                ELSE Num(t)
          e0 == ents[sym]
          lpRaises == lp.t = "bad"
          e1 == IF lp.t = "num" THEN [e0 EXCEPT !.lastPrice = Some(lp.v)] ELSE e0
          e2 == IF lpRaises THEN e0
                ELSE IF Parses(ts) THEN [e1 EXCEPT !.lastPriceUpdatedAt = ts.v]
                ELSE e1
      IN [ents EXCEPT ![sym] = e2]

\* A variant of parse_ws_kline_and_update that rolls prev_close before the
\* metric update instead of after it.
parse_ws_kline_roll_first(ents, pclose, sym, tf, data, t) ==
    IF data = <<>>
    THEN [raised |-> FALSE, entries |-> ents, prev_close |-> pclose]
    ELSE
      LET k == data[Len(data)]
          pc1 == IF k.confirm /\ Parses(k.close)
                 THEN roll_prev_close_on_close(pclose, sym, tf, k.close.v)
                 ELSE pclose
          r == set_from_kline(ents, pc1, sym, tf, k, t)
      IN IF r.raised
         THEN [raised |-> TRUE, entries |-> ents, prev_close |-> pclose]
         ELSE [raised |-> FALSE, entries |-> r.entries, prev_close |-> pc1]

\* parse_ws_kline_and_update: the last element of payload["data"] is applied;
\* prev_close rolls after the metric update, and only for confirm == true.
parse_ws_kline_and_update(ents, pclose, sym, tf, data, t) ==
    IF data = <<>>
    THEN [raised |-> FALSE, entries |-> ents, prev_close |-> pclose]
    ELSE
      LET k == data[Len(data)]
          r == set_from_kline(ents, pclose, sym, tf, k, t)
      IN IF r.raised
         THEN [raised |-> TRUE, entries |-> ents, prev_close |-> pclose]
         ELSE [raised |-> FALSE, entries |-> r.entries,
               prev_close |-> IF k.confirm /\ Parses(k.close)
                              THEN roll_prev_close_on_close(pclose, sym, tf, k.close.v)
                              ELSE pclose]

recompute_overview(ents) ==
    [tf \in TFS |->
        [timeframe |-> tf,
         gainers |-> Cardinality({s \in DOMAIN ents :
                        /\ ~IsNone(ents[s].metrics[tf].changePercent)
                        /\ Val(ents[s].metrics[tf].changePercent) > 0}),
         losers |-> Cardinality({s \in DOMAIN ents :
                        /\ ~IsNone(ents[s].metrics[tf].changePercent)
                        /\ Val(ents[s].metrics[tf].changePercent) < 0})]]

(***************************************************************************)
(* Upstream frames (main.py:419-432, 567-587)                              *)
(*                                                                         *)
(* A topic is the sequence of its dot-separated parts; <<>> is a frame     *)
(* without topic.                                                          *)
(***************************************************************************)
NoTicker == [lastPrice |-> Missing, ts |-> Missing, timestamp |-> Missing]

TickerFrame(sym, data) == [topic |-> <<"tickers", sym>>, tdata |-> data, kdata |-> <<>>]
KlineFrame(interval, sym, karr) ==
    [topic |-> <<"kline", interval, sym>>, tdata |-> NoTicker, kdata |-> karr]

\* topic.split(".", 1)[1]: everything after the first dot.
TickerSym(topic) == IF Len(topic) = 2 THEN topic[2] ELSE "?"

\* on_msg: marked tells whether mark_dirty() was reached.
on_msg(ents, pclose, msg, t) ==
    LET topic == msg.topic
        same == [raised |-> FALSE, marked |-> FALSE, entries |-> ents,
                 prev_close |-> pclose]
    IN IF topic = <<>> THEN same
       ELSE IF topic[1] = "tickers" /\ Len(topic) >= 2
       THEN [same EXCEPT !.entries = update_ticker(ents, TickerSym(topic), msg.tdata, t),
                         !.marked = TRUE]
       ELSE IF topic[1] = "kline" /\ Len(topic) >= 2
       THEN IF Len(topic) # 3 THEN same
            ELSE LET tf == INTERVAL_TO_TF(topic[2])
                 IN IF IsNone(tf) THEN same
                    ELSE LET r == parse_ws_kline_and_update(ents, pclose, topic[3],
                                                            Val(tf), msg.kdata, t)
                         IN [raised |-> r.raised, marked |-> ~r.raised,
                             entries |-> r.entries, prev_close |-> r.prev_close]
       ELSE same

\* A handler that does not set the event.
mark_dirty_skipped(d) == d

\* _dirty_event.set()
mark_dirty(d) == TRUE

\* The frame is a kline frame whose candle set_from_kline applies.
KlineApplied(ents, msg) ==
    /\ Len(msg.topic) = 3 /\ msg.topic[1] = "kline"
    /\ ~IsNone(INTERVAL_TO_TF(msg.topic[2]))
    /\ msg.topic[3] \in DOMAIN ents
    /\ msg.kdata # <<>>
    /\ LET k == msg.kdata[Len(msg.kdata)]
       IN Parses(k.start) /\ Parses(k.open) /\ Parses(k.close)
          /\ Parses(k.volume) /\ Parses(k.turnover)

FramePair(msg) == <<msg.topic[3], Val(INTERVAL_TO_TF(msg.topic[2]))>>
FrameKline(msg) == msg.kdata[Len(msg.kdata)]

\* History kept for the properties: the last two klines applied to a pair,
\* each with the number of the frame that carried it.
Remember(h, k, n) ==
    LET e == [k |-> k, at |-> n]
    IN IF h = <<>> THEN <<e>> ELSE <<h[Len(h)], e>>

\* A block that lets the exception of its body out.
suppress_nothing(raised) == raised

\* with suppress(Exception) around the decoding and the handler (line 424):
\* tells whether an exception raised inside leaves the block.
suppress(raised) == FALSE

\* The connection of ws_linear_conn after one frame: an exception that leaves
\* the loop body ends `async for raw in ws`; the worker sleeps and connects
\* anew (lines 427-432).
ws_after_frame(raised) == IF suppress(raised) THEN "reconnect" ELSE "open"

\* One iteration of `async for raw in ws` in ws_linear_conn: the frame is
\* decoded and handled inside suppress(Exception).
HandleFrame(msg) ==
    LET r == on_msg(entries, prev_close, msg, now)
    IN /\ entries' = r.entries
       /\ prev_close' = r.prev_close
       /\ dirty' = IF r.marked THEN mark_dirty(dirty) ELSE dirty
       /\ UNCHANGED <<symbols, overview>>

\* What the properties remember of the frame: the frame and its outcome, and
\* per pair the klines applied.
NoteFrame(msg) ==
    LET r == on_msg(entries, prev_close, msg, now)
    IN /\ last' = [msg |-> msg, raised |-> r.raised, marked |-> r.marked,
                    conn |-> ws_after_frame(r.raised)]
       /\ lastK' = IF KlineApplied(entries, msg)
                   THEN [lastK EXCEPT ![FramePair(msg)] =
                            Remember(@, FrameKline(msg), nsteps + 1)]
                   ELSE lastK
       /\ nsteps' = nsteps + 1

(***************************************************************************)
(* Cold start (main.py:508-555)                                            *)
(***************************************************************************)
\* Step 4 for one (symbol, timeframe): kl is the REST answer sorted by start;
\* with two candles the older one's close seeds prev_close before the newer
\* one is applied.  The REST candles of the model all parse.
cold_pair(st, sym, tf, kl, t) ==
    IF kl = <<>> THEN st
    ELSE LET pc1 == IF Len(kl) >= 2
                    THEN [st.prev_close EXCEPT ![<<sym, tf>>] = Some(kl[Len(kl) - 1].close.v)]
                    ELSE st.prev_close
             r == set_from_kline(st.entries, pc1, sym, tf, kl[Len(kl)], t)
         IN [entries |-> r.entries, prev_close |-> pc1]

RECURSIVE cold_pairs(_, _, _, _)
cold_pairs(st, pairs, kl, t) ==
    IF pairs = {} THEN st
    ELSE LET p == CHOOSE q \in pairs : TRUE
         IN cold_pairs(cold_pair(st, p[1], p[2], kl, t), pairs \ {p}, kl, t)

\* The store after init_state_and_ws has built the entries of syms, every
\* pair seeded from the same REST answer kl, and recomputed the overview.
ColdStore(syms, kl, t) ==
    LET S == {syms[i] : i \in 1..Len(syms)}
        st0 == [entries |-> [s \in S |-> new_entry(s)],
                prev_close |-> [p \in S \X TFS |-> None]]
        st == cold_pairs(st0, S \X TFS, kl, t)
    IN [entries |-> st.entries, prev_close |-> st.prev_close,
        overview |-> recompute_overview(st.entries)]

Kline(start, open, close, volume, turnover, confirm) ==
    [start |-> start, open |-> open, close |-> close, volume |-> volume,
     turnover |-> turnover, confirm |-> confirm]

(***************************************************************************)
(* Index statistics and snapshot build (main.py:170-225, 362-369)          *)
(***************************************************************************)
\* round(x, 4): to the nearest multiple of 10 units, a tie to the even one.
Round4(x) ==
    LET q == x \div 10
        r == x % 10
    IN IF r < 5 THEN 10 * q
       ELSE IF r > 5 THEN 10 * (q + 1)
       ELSE IF q % 2 = 0 THEN 10 * q ELSE 10 * (q + 1)

RECURSIVE SumOver(_, _)
SumOver(f, S) ==
    IF S = {} THEN 0
    ELSE LET x == CHOOSE y \in S : TRUE IN f[x] + SumOver(f, S \ {x})

compute_d1_stats(ents) ==
    LET C == {s \in DOMAIN ents : ~IsNone(ents[s].metrics["D1"].changePercent)}
        ch == [s \in C |-> Val(ents[s].metrics["D1"].changePercent)]
        pos == SumOver([s \in C |-> IF ch[s] > 0 THEN ch[s] ELSE 0], C)
        neg == SumOver([s \in C |-> IF ch[s] < 0 THEN -ch[s] ELSE 0], C)
        count == Cardinality(C)
    IN [positiveSum |-> pos, negativeSum |-> neg, count |-> count,
        netPercent |-> IF count > 0 THEN (neg - pos) \div count ELSE 0]

\* The history keeps INDEX_MAX_CANDLES closed candles and the export shows
\* the last INDEX_HISTORY_EXPORT of them (1000 and 720 in main.py, scaled down
\* here so that both limits are reached), then a copy of the active one.
INDEX_HISTORY_EXPORT == 2
INDEX_MAX_CANDLES == 3

\* A cut that keeps the oldest items.
FirstN(seq, n) ==
    IF Len(seq) <= n THEN seq ELSE SubSeq(seq, 1, n)

\* seq[-n:]
LastN(seq, n) ==
    IF Len(seq) <= n THEN seq ELSE SubSeq(seq, Len(seq) - n + 1, Len(seq))

export_index_history(hist, active) ==
    LastN(hist, INDEX_HISTORY_EXPORT) \o active

\* build_snapshot_json.  The index summary, the exported history and
\* updatedAt are values computed at the call; "entries" and "overview" are
\* lists of the live entry and overview dictionaries.
build_snapshot_json(ents, ov, hist, active, prevv, t) ==
    LET stats == compute_d1_stats(ents)
        cur == IF active # <<>> THEN [slot |-> active[1].startTime, value |-> active[1].close]
               ELSE IF hist # <<>>
               THEN [slot |-> hist[Len(hist)].startTime, value |-> hist[Len(hist)].close]
               ELSE [slot |-> 0, value |-> prevv]
    IN [entries |-> ents,
        overview |-> ov,
        indexSummary |-> [latest |-> Round4(cur.value),
                          baseValue |-> INDEX_BASE_VALUE,
                          lastSlot |-> cur.slot,
                          netPercent |-> Round4(stats.netPercent),
                          positiveSum |-> Round4(stats.positiveSum),
                          negativeSum |-> Round4(stats.negativeSum),
                          count |-> stats.count,
                          slotDuration |-> INDEX_SLOT_MS],
        indexHistory |-> export_index_history(hist, active),
        updatedAt |-> t]

\* dumps(payload): the bytes put on the wire.  The values of the payload are
\* written as they were built, the live entry and overview dictionaries as
\* they are when dumps runs.
dumps(payload, ents, ov) ==
    [payload EXCEPT !.entries = ents, !.overview = ov]

(***************************************************************************)
(* Index candles (main.py:268-350)                                         *)
(* Index values are percentages in the units of Pct.  A candle is a record *)
(* with the keys of the dictionary built at lines 312-322.                 *)
(***************************************************************************)
max(a, b, c) ==
    IF a >= b /\ a >= c THEN a ELSE IF b >= c THEN b ELSE c

min(a, b, c) ==
    IF a <= b /\ a <= c THEN a ELSE IF b <= c THEN b ELSE c

slot_start(t) == (t \div INDEX_SLOT_MS) * INDEX_SLOT_MS

\* Lines 311-322: the candle opened at the previous close.
new_candle(slot, open_value) ==
    [startTime |-> slot,
     open |-> Round4(open_value),
     high |-> Round4(open_value),
     low |-> Round4(open_value),
     close |-> Round4(open_value),
     netPercent |-> 0,
     positiveSum |-> 0,
     negativeSum |-> 0,
     count |-> 0]

\* A candle whose high ignores the close of the tick.
high_value_without_close(high_prev, close_value, open_value) ==
    IF high_prev >= open_value THEN high_prev ELSE open_value

\* Lines 335-336.
high_value(high_prev, close_value, open_value) ==
    max(high_prev, close_value, open_value)

low_value(low_prev, close_value, open_value) ==
    min(low_prev, close_value, open_value)

\* Lines 327-348: the tick written into the active candle.
update_candle(c, stats) ==
    LET open_value == c.open
        close_value == -stats.netPercent
    IN [c EXCEPT !.close = Round4(close_value),
                 !.high = Round4(high_value(c.high, close_value, open_value)),
                 !.low = Round4(low_value(c.low, close_value, open_value)),
                 !.netPercent = Round4(stats.netPercent),
                 !.positiveSum = Round4(stats.positiveSum),
                 !.negativeSum = Round4(stats.negativeSum),
                 !.count = stats.count]

\* maybe_capture_index_candle from line 308 on: a candle is opened when there
\* is none (unless the tick is not forced and no symbol has a D1 change),
\* then updated; "marked" tells whether mark_dirty was reached.
capture_rest(active, prevv, stats, slot, force) ==
    LET a == IF IsNone(active)
             THEN IF ~force /\ stats.count = 0 THEN None
                  ELSE Some(new_candle(slot, prevv))
             ELSE active
    IN IF IsNone(a) THEN [active |-> None, marked |-> FALSE]
       ELSE [active |-> Some(update_candle(Val(a), stats)), marked |-> TRUE]

\* A store that leaves the previous close at the open of the closed candle.
store_closed_candle_keeps_open(hist, candle) ==
    [index_history |-> LastN(Append(hist, candle), INDEX_MAX_CANDLES),
     index_prev_close_value |-> candle.open]

\* store_closed_candle up to line 274: the part that runs before any await.
store_closed_candle(hist, candle) ==
    [index_history |-> LastN(Append(hist, candle), INDEX_MAX_CANDLES),
     index_prev_close_value |-> candle.close]

\* A command that removes nothing.
zremrangebyscore_nothing(z, score) == z

\* The sorted set of the persistence backend, as the set of its members.
zremrangebyscore(z, score) == {c \in z : c.startTime # score}

zadd(z, c) == z \cup {c}

zremrangebyrank(z, n) ==
    {c \in z : Cardinality({d \in z : d.startTime < c.startTime}) >= n}


(***************************************************************************)
(* Bounds and inputs of the model                                          *)
(***************************************************************************)
MaxSteps == 3

Prices == {0, 3, 4}
Starts == {0, 300000}

\* REST answers at cold start: nothing, one candle, two candles.
ColdKlines ==
    { <<>>,
      <<Kline(Num(0), Num(3), Num(4), Num(1), Num(10), FALSE)>>,
      <<Kline(Num(0), Num(4), Num(3), Num(1), Num(10), FALSE),
        Kline(Num(300000), Num(3), Num(3), Num(1), Num(10), FALSE)>> }

\* Every parsable candle over the small value sets, and one more with
\* another volume and turnover.
GoodKlines ==
    { Kline(Num(st), Num(o), Num(c), Num(1), Num(10), cf) :
        st \in Starts, o \in {0, 3}, c \in {0, 4}, cf \in BOOLEAN }
    \cup { Kline(Num(0), Num(3), Num(3), Num(2), Num(20), TRUE) }

\* Candles with exactly one field missing or not a number.
OneFieldBad(k) ==
    { [k EXCEPT ![f] = b] : f \in {"start", "open", "close", "volume", "turnover"},
                            b \in {Bad, Missing} }
BadKlines == OneFieldBad(Kline(Num(300000), Num(3), Num(4), Num(2), Num(20), TRUE))

\* A few candles for the pairs other than the one under study.
FewKlines ==
    { Kline(Num(0), Num(3), Num(4), Num(1), Num(10), cf) : cf \in BOOLEAN }

TickerData ==
    { [lastPrice |-> lp, ts |-> ts, timestamp |-> Missing] :
        lp \in {Missing, Bad, Num(4)}, ts \in {Missing, Bad, Num(5000)} }
    \cup { [lastPrice |-> Num(3), ts |-> Missing, timestamp |-> Num(6000)] }

\* Frames on_msg and the handlers drop: a symbol outside the universe, an
\* interval outside the map, a kline topic of two or four parts, an empty
\* data array, another topic prefix, no topic.
DropKline == Kline(Num(300000), Num(4), Num(3), Num(2), Num(20), TRUE)
DropTicker == [lastPrice |-> Num(4), ts |-> Num(5000), timestamp |-> Missing]

DroppedFrames ==
    { TickerFrame("Z", DropTicker),
      KlineFrame("5", "Z", <<DropKline>>),
      KlineFrame("7", "A", <<DropKline>>),
      [topic |-> <<"kline", "5">>, tdata |-> NoTicker, kdata |-> <<DropKline>>],
      [topic |-> <<"kline", "5", "A", "x">>, tdata |-> NoTicker, kdata |-> <<DropKline>>],
      KlineFrame("5", "A", <<>>),
      [topic |-> <<"orderbook", "A">>, tdata |-> DropTicker, kdata |-> <<DropKline>>],
      [topic |-> <<>>, tdata |-> DropTicker, kdata |-> <<DropKline>>] }

StoreFrames ==
    {KlineFrame("5", "A", <<k>>) : k \in GoodKlines \cup BadKlines}
    \cup {KlineFrame(TF_INTERVALS[p[2]], p[1], <<k>>) :
            p \in {<<"A", "D1">>, <<"B", "M5">>}, k \in FewKlines}
    \cup {TickerFrame("A", d) : d \in TickerData}
    \cup {TickerFrame("B", [lastPrice |-> Num(4), ts |-> Bad, timestamp |-> Missing])}
    \cup DroppedFrames

NoFrame == [msg |-> [topic |-> <<>>, tdata |-> NoTicker, kdata |-> <<>>],
            raised |-> FALSE, marked |-> FALSE, conn |-> "open"]

(***************************************************************************)
(* Initial values of the parts a specification leaves alone                *)
(***************************************************************************)
BcastIdle ==
    /\ clients = {}
    /\ bpc = "off"
    /\ round = <<>>
    /\ socks = <<>>
    /\ timer = 0
    /\ wire = <<>>
    /\ obs = <<>>

IndexIdle ==
    /\ redis_client = "none"
    /\ index_history = <<>>
    /\ index_prev_close_value = INDEX_BASE_VALUE
    /\ index_active_candle = None
    /\ redis_zset = {}
    /\ ipc = "off"
    /\ ilocals = <<>>

\* The index after main's forced capture (line 598) with no persistence
\* backend and nothing loaded.
IndexForced(ents, t) ==
    /\ redis_client = "none"
    /\ index_history = <<>>
    /\ index_prev_close_value = INDEX_BASE_VALUE
    /\ index_active_candle =
         capture_rest(None, INDEX_BASE_VALUE, compute_d1_stats(ents),
                      slot_start(t), TRUE).active
    /\ redis_zset = {}
    /\ ipc = "poll"
    /\ ilocals = <<>>

(***************************************************************************)
(* Spec: the store under a stream of upstream frames                       *)
(***************************************************************************)
Init ==
    /\ symbols = <<"A", "B">>
    /\ \E kl \in ColdKlines :
         LET st == ColdStore(symbols, kl, 1000)
         IN /\ entries = st.entries
            /\ prev_close = st.prev_close
            /\ overview = st.overview
    /\ dirty = FALSE
    /\ now = 1000
    /\ last = NoFrame
    /\ lastK = [p \in {"A", "B"} \X TFS |-> <<>>]
    /\ nsteps = 0
    /\ BcastIdle
    /\ IndexIdle

Frame ==
    /\ nsteps < MaxSteps
    /\ \E msg \in StoreFrames : HandleFrame(msg) /\ NoteFrame(msg)
    /\ UNCHANGED <<now, bcastVars, indexVars>>

Next == Frame

Spec == Init /\ [][Next]_vars

\* The universe: the symbols of the instruments list.
SymbolSet == {symbols[i] : i \in DOMAIN symbols}

(***************************************************************************)
(* Properties of the store under frames (checked under Spec)               *)
(***************************************************************************)
\* The fields of a metric without the wall-clock updatedAt.
MetricCore(m) ==
    [openTime |-> m.openTime, openPrice |-> m.openPrice,
     baselinePrice |-> m.baselinePrice, prevClose |-> m.prevClose,
     changePercent |-> m.changePercent,
     closeToClosePercent |-> m.closeToClosePercent,
     volume |-> m.volume, turnover |-> m.turnover]

Pairs == DOMAIN prev_close
MetricOf(ents, p) == ents[p[1]].metrics[p[2]]

\* C6: idempotence of apply.  When the frame handled now is the kline frame
\* handled just before it (same pair, same candle, applied both times), the
\* metric of the pair (updatedAt apart) and the prev_close table are after the
\* second application what they were after the first.
C6_IdempotentApply ==
    [][ ( /\ nsteps' = nsteps + 1
          /\ last'.msg = last.msg
          /\ KlineApplied(entries, last.msg) )
        => /\ MetricCore(MetricOf(entries', FramePair(last.msg)))
                = MetricCore(MetricOf(entries, FramePair(last.msg)))
           /\ prev_close' = prev_close ]_vars

\* A confirmed kline was applied twice in a row to a pair that had another
\* previous close before.
C6_Witness ==
    /\ nsteps >= 2
    /\ KlineApplied(entries, last.msg)
    /\ FrameKline(last.msg).confirm
    /\ LET h == lastK[FramePair(last.msg)]
       IN Len(h) = 2 /\ h[1].k = h[2].k /\ h[1].at + 1 = h[2].at

\* C7: confirm/roll ordering.  On every step that applies a kline with close
\* c' to a pair: (a) the metric's prevClose and closeToClosePercent are
\* computed against the prev_close entry as it was before the frame, when
\* that was > 0; (b) a confirmed kline leaves prev_close[pair] = c'; (c) when
\* the kline applied before it to the same pair (any number of frames for
\* other pairs ago) was confirmed with close c > 0, the metric now has
\* prevClose = c and closeToClosePercent = (c' - c) / c * 100.
C7_ConfirmRoll ==
    [][ ( /\ nsteps' = nsteps + 1
          /\ KlineApplied(entries, last'.msg) )
        => LET p == FramePair(last'.msg)
               k2 == FrameKline(last'.msg)
               m2 == MetricOf(entries', p)
               h == lastK[p]
           IN /\ (~IsNone(prev_close[p]) /\ Val(prev_close[p]) > 0)
                    => /\ m2.prevClose = prev_close[p]
                       /\ m2.closeToClosePercent
                            = Some(Pct(k2.close.v, Val(prev_close[p])))
              /\ k2.confirm => prev_close'[p] = Some(k2.close.v)
              /\ (h # <<>> /\ h[Len(h)].k.confirm /\ h[Len(h)].k.close.v > 0)
                    => /\ m2.prevClose = Some(h[Len(h)].k.close.v)
                       /\ m2.closeToClosePercent
                            = Some(Pct(k2.close.v, h[Len(h)].k.close.v)) ]_vars

\* A confirmed kline with close > 0 was applied to a pair, a frame for
\* something else was handled, and then another confirmed kline with another
\* close was applied to the pair.
C7_Witness ==
    \E p \in Pairs :
        LET h == lastK[p]
        IN /\ Len(h) = 2
           /\ h[1].k.confirm /\ h[1].k.close.v > 0
           /\ h[2].at > h[1].at + 1
           /\ h[2].k.confirm /\ h[2].k.close.v > 0
           /\ h[2].k.close.v # h[1].k.close.v
           /\ MetricOf(entries, p).prevClose = Some(h[1].k.close.v)

\* C8: monotone overwrite.  After two klines k1, k2 applied one after the
\* other to a pair, the metric holds k2's start, open, volume and turnover;
\* changePercent is (close2 - open2) / open2 * 100 when open2 > 0, and when
\* open2 <= 0 it is not the value k1 left there; closeToClosePercent is
\* computed against the current prev_close (k1's close, when k1 was confirmed
\* with close > 0).
C8_MonotoneOverwrite ==
    \A p \in Pairs :
        LET h == lastK[p]
            m == MetricOf(entries, p)
        IN Len(h) = 2 =>
            LET k1 == h[1].k
                k2 == h[2].k
            IN /\ m.openTime = k2.start.v
               /\ m.openPrice = Some(k2.open.v)
               /\ m.baselinePrice = Some(k2.open.v)
               /\ m.volume = k2.volume.v
               /\ m.turnover = k2.turnover.v
               /\ k2.open.v > 0 => m.changePercent = Some(Pct(k2.close.v, k2.open.v))
               /\ (k2.open.v <= 0 /\ k1.open.v > 0)
                    => m.changePercent # Some(Pct(k1.close.v, k1.open.v))
               /\ (k1.confirm /\ k1.close.v > 0)
                    => m.closeToClosePercent = Some(Pct(k2.close.v, k1.close.v))

\* C9: a frame is applied whole or not at all.
TickerWritten(ents, sym, data, t) ==
    LET ts == IF Truthy(data.ts) THEN data.ts
              ELSE IF Truthy(data.timestamp) THEN data.timestamp
              ELSE Num(t)
    IN /\ sym \in DOMAIN ents
       /\ data.lastPrice.t # "bad"
       /\ Parses(ts)
       /\ data.lastPrice.t = "num" => ents[sym].lastPrice = Some(data.lastPrice.v)
       /\ ents[sym].lastPriceUpdatedAt = ts.v

KlineWritten(ents, pclose, msg) ==
    /\ KlineApplied(ents, msg)
    /\ LET k == FrameKline(msg)
           m == MetricOf(ents, FramePair(msg))
       IN /\ m.openTime = k.start.v
          /\ m.openPrice = Some(k.open.v)
          /\ m.baselinePrice = Some(k.open.v)
          /\ m.volume = k.volume.v
          /\ m.turnover = k.turnover.v
          /\ k.confirm => pclose[FramePair(msg)] = Some(k.close.v)

\* C9: every handled ticker or kline frame either leaves entries and
\* prev_close exactly as they were or has written every field the frame
\* carries.
C9_AtomicOrNoop ==
    [][ nsteps' = nsteps + 1
        => \/ (entries' = entries /\ prev_close' = prev_close)
           \/ /\ last'.msg.topic[1] = "tickers"
              /\ TickerWritten(entries', last'.msg.topic[2], last'.msg.tdata, now)
           \/ /\ last'.msg.topic[1] = "kline"
              /\ KlineWritten(entries', prev_close', last'.msg) ]_vars

(***************************************************************************)
(* Debounced broadcaster and downstream clients (main.py:459-505)          *)
(*                                                                         *)
(* bpc is where debounce_broadcaster stands:                               *)
(*   "off"        the task is created and has not run yet                  *)
(*   "wait"       suspended in _dirty_event.wait()                         *)
(*   "sleep"      suspended in asyncio.sleep(DEBOUNCE_MS / 1000)           *)
(*   "scheduled"  suspended in gather; the safe_send tasks have not run    *)
(*   "sending"    suspended in gather; every safe_send is inside ws.send   *)
(*   "dropping"   holding clients_lock, suspended in ws.close()            *)
(* A socket is used once: "new", "open" (handle_client reads from it),     *)
(* "gone" (the peer left or the server closed it), "closed" (handle_client *)
(* has returned).                                                          *)
(***************************************************************************)
DEBOUNCE_MS == 200
TickMs == 100

Min(a, b) == IF a < b THEN a ELSE b
Max(a, b) == IF a > b THEN a ELSE b

\* `async with clients_lock` is entered without suspension unless the
\* broadcaster holds the lock across ws.close().
LockHeld == bpc = "dropping"

\* The top of `while True`: wait() returns at once when the event is set,
\* and the task then suspends in the sleep.
LoopTop(d) ==
    IF d THEN [bpc |-> "sleep", timer |-> DEBOUNCE_MS]
    ELSE [bpc |-> "wait", timer |-> 0]

\* The positions of main inside init_state_and_ws, named after the REST call
\* it awaits; "aborted" is main ended by the exception of a REST call.
ColdPositions == {"instruments", "tickers", "klines"}

\* A main that creates its tasks before the cold start.
TasksCreatedEarly(p) == TRUE

\* main creates the worker tasks at line 589 and the broadcaster and index
\* tasks at lines 601-602, all after the cold start and the forced capture
\* and with no suspension in between; a task runs only once created.
TasksCreated(p) == p \notin ColdPositions \cup {"off", "aborted"}

\* The first step of the broadcaster task, created at line 601 after the
\* forced index capture.
BStart ==
    /\ bpc = "off"
    /\ TasksCreated(ipc)
    /\ bpc' = LoopTop(dirty).bpc
    /\ timer' = LoopTop(dirty).timer
    /\ UNCHANGED <<storeVars, dirty, clients, round, socks, obs, now, indexVars,
                   ghostVars>>
    /\ wire' = <<>>

\* _dirty_event.wait() returns.
BWake ==
    /\ bpc = "wait"
    /\ dirty
    /\ bpc' = "sleep"
    /\ timer' = DEBOUNCE_MS
    /\ UNCHANGED <<storeVars, dirty, clients, round, socks, obs, now, indexVars,
                   ghostVars>>
    /\ wire' = <<>>

\* A broadcaster that clears the event after broadcast_snapshot() instead
\* of before recompute_overview().
ClearAfterBroadcast == FALSE

\* Line 487 stands before lines 488-489: the event is cleared before the
\* overview is recomputed and the snapshot built.
ClearBeforeBroadcast == TRUE

ClearAtFire(d) == IF ClearBeforeBroadcast THEN FALSE ELSE d
ClearAtEnd(d) == IF ClearBeforeBroadcast THEN d ELSE FALSE

\* The sleep is over: lines 487-489 up to the first suspension.  The event is
\* cleared, the overview recomputed, the payload built and the targets
\* copied; with no target broadcast_snapshot returns and the loop waits.
BFire ==
    /\ bpc = "sleep"
    /\ timer = 0
    /\ dirty' = ClearAtFire(dirty)
    /\ overview' = recompute_overview(entries)
    /\ LET payload == build_snapshot_json(entries, overview', index_history,
                                          index_active_candle,
                                          index_prev_close_value, now)
       IN IF clients = {}
          THEN /\ round' = <<>>
               /\ bpc' = LoopTop(dirty').bpc
               /\ timer' = LoopTop(dirty').timer
          ELSE /\ round' = [payload |-> payload, targets |-> clients,
                            pending |-> clients, failed |-> {}]
               /\ bpc' = "scheduled"
               /\ timer' = 0
    /\ obs' = [marks |-> IF dirty' THEN obs.marks ELSE 0, unbuilt |-> FALSE,
               age |-> 0]
    /\ wire' = [kind |-> "build", to |-> {},
                content |-> build_snapshot_json(entries, overview', index_history,
                                                index_active_candle,
                                                index_prev_close_value, now),
                gap |-> obs.age, coalesced |-> obs.marks]
    /\ UNCHANGED <<symbols, entries, prev_close, clients, socks, now, indexVars,
                   ghostVars>>

\* The safe_send tasks run their first steps one after the other in one pass
\* of the event loop (gather queued them back to back): each evaluates
\* dumps(payload) and suspends inside ws.send.
BSerialise ==
    /\ bpc = "scheduled"
    /\ wire' = [kind |-> "round", to |-> round.targets,
                content |-> dumps(round.payload, entries, overview),
                gap |-> 0, coalesced |-> 0]
    /\ bpc' = "sending"
    /\ UNCHANGED <<storeVars, dirty, clients, round, socks, timer, obs, now,
                   indexVars, ghostVars>>

\* ws.send to c returns or raises; safe_send gives True or False.
SendReturn(c) ==
    /\ bpc = "sending"
    /\ c \in round.pending
    /\ round' = [round EXCEPT !.pending = @ \ {c},
                              !.failed = IF socks[c] = "open" THEN @ ELSE @ \cup {c}]
    /\ UNCHANGED <<storeVars, dirty, clients, bpc, socks, timer, obs, now,
                   indexVars, ghostVars>>
    /\ wire' = <<>>

\* A gather that returns with the first result.
gather_first(pending) == TRUE

\* Line 474: gather returns when every safe_send has returned.
gather_done(pending) == pending = {}

\* gather returns.  Without a failed send the loop goes round; otherwise the
\* lock is taken for the drops.
BGathered ==
    /\ bpc = "sending"
    /\ gather_done(round.pending)
    /\ dirty' = IF round.failed = {} THEN ClearAtEnd(dirty) ELSE dirty
    /\ IF round.failed = {}
       THEN /\ bpc' = LoopTop(dirty').bpc
            /\ timer' = LoopTop(dirty').timer
            /\ round' = <<>>
       ELSE /\ bpc' = "dropping"
            /\ timer' = 0
            /\ round' = round
    /\ UNCHANGED <<storeVars, clients, socks, obs, now, indexVars, ghostVars>>
    /\ wire' = <<>>

\* A drop loop that leaves the registry alone.
discard_nothing(S, c) == S

\* clients.discard(ws).
discard(S, c) == S \ {c}

\* One turn of `for ws in to_drop`: discard, then ws.close().
BDrop(c) ==
    /\ bpc = "dropping"
    /\ c \in round.failed
    /\ clients' = discard(clients, c)
    /\ socks' = [socks EXCEPT ![c] = IF @ = "open" THEN "gone" ELSE @]
    /\ round' = [round EXCEPT !.failed = @ \ {c}]
    /\ UNCHANGED <<storeVars, dirty, bpc, timer, obs, now, indexVars, ghostVars>>
    /\ wire' = <<>>

\* The last close has returned: the lock is released and the loop goes round.
BDropDone ==
    /\ bpc = "dropping"
    /\ round.failed = {}
    /\ dirty' = ClearAtEnd(dirty)
    /\ bpc' = LoopTop(dirty').bpc
    /\ timer' = LoopTop(dirty').timer
    /\ round' = <<>>
    /\ UNCHANGED <<storeVars, clients, socks, obs, now, indexVars, ghostVars>>
    /\ wire' = <<>>

\* handle_client up to its first suspension: the socket is registered and
\* the join snapshot is built and serialised at once (no recompute_overview).
HandleClientJoin(c) ==
    /\ bpc # "off"
    /\ TasksCreated(ipc)
    /\ socks[c] = "new"
    /\ ~LockHeld
    /\ clients' = clients \cup {c}
    /\ socks' = [socks EXCEPT ![c] = "open"]
    /\ LET payload == build_snapshot_json(entries, overview, index_history,
                                          index_active_candle,
                                          index_prev_close_value, now)
       IN wire' = [kind |-> "join", to |-> {c},
                   content |-> dumps(payload, entries, overview),
                   gap |-> 0, coalesced |-> 0]
    /\ UNCHANGED <<storeVars, dirty, bpc, round, timer, obs, now, indexVars,
                   ghostVars>>

\* handle_client for a socket whose peer is already gone: the socket is
\* registered, ws.send raises inside suppress(Exception), `async for` ends
\* at once and the finally block discards the socket; nothing is sent.
HandleClientJoinFails(c) ==
    /\ bpc # "off"
    /\ TasksCreated(ipc)
    /\ socks[c] = "new"
    /\ ~LockHeld
    /\ clients' = discard(clients \cup {c}, c)
    /\ socks' = [socks EXCEPT ![c] = "closed"]
    /\ UNCHANGED <<storeVars, dirty, bpc, round, timer, obs, now, indexVars,
                   ghostVars>>
    /\ wire' = <<>>

\* The peer of c goes away.
ClientGone(c) ==
    /\ socks[c] = "open"
    /\ socks' = [socks EXCEPT ![c] = "gone"]
    /\ UNCHANGED <<storeVars, dirty, clients, bpc, round, timer, obs, now,
                   indexVars, ghostVars>>
    /\ wire' = <<>>

\* `async for _ in ws` ends; the finally block discards the socket.
HandlerExit(c) ==
    /\ socks[c] = "gone"
    /\ ~LockHeld
    /\ clients' = clients \ {c}
    /\ socks' = [socks EXCEPT ![c] = "closed"]
    /\ UNCHANGED <<storeVars, dirty, bpc, round, timer, obs, now, indexVars,
                   ghostVars>>
    /\ wire' = <<>>

\* Time passes.
Tick ==
    /\ bpc # "off"
    /\ timer' = Max(0, timer - TickMs)
    /\ obs' = [obs EXCEPT !.age = Min(DEBOUNCE_MS, @ + TickMs)]
    /\ UNCHANGED <<storeVars, dirty, clients, bpc, round, socks, now, indexVars,
                   ghostVars>>
    /\ wire' = <<>>

\* Frames of the broadcast specifications: tickers and D1 klines of "A".
BcastFrames ==
    {TickerFrame("A", [lastPrice |-> Num(lp), ts |-> Num(5000), timestamp |-> Missing]) :
        lp \in {3, 4}}
    \cup {KlineFrame("D", "A", <<Kline(Num(0), Num(3), Num(c), Num(1), Num(10), FALSE)>>) :
            c \in {0, 4}}

\* A worker handles a frame of F while the broadcaster is anywhere in its
\* loop.
WorkerFrame(F) ==
    /\ bpc # "off"
    /\ TasksCreated(ipc)
    /\ \E msg \in F :
         /\ HandleFrame(msg)
         /\ LET r == on_msg(entries, prev_close, msg, now)
            IN obs' = IF r.marked
                      THEN [obs EXCEPT !.marks = Min(2, @ + 1), !.unbuilt = TRUE]
                      ELSE obs
    /\ UNCHANGED <<clients, bpc, round, socks, timer, now, indexVars, ghostVars>>
    /\ wire' = <<>>

BFrame == WorkerFrame(BcastFrames)

\* After cold start and the forced index capture of main (which has called
\* mark_dirty), with the broadcaster task created.
BcastInit(S) ==
    /\ symbols = <<"A">>
    /\ LET st == ColdStore(symbols, <<>>, 1000)
       IN /\ entries = st.entries
          /\ prev_close = st.prev_close
          /\ overview = st.overview
    /\ dirty = TRUE
    /\ now = 1000
    /\ clients = {}
    /\ bpc = "off"
    /\ round = <<>>
    /\ socks = [c \in S |-> "new"]
    /\ timer = 0
    /\ wire = <<>>
    /\ obs = [marks |-> 1, unbuilt |-> TRUE, age |-> DEBOUNCE_MS]
    /\ last = NoFrame
    /\ lastK = <<>>
    /\ nsteps = 0
    /\ IndexForced(ColdStore(symbols, <<>>, 1000).entries, 1000)

Sockets == DOMAIN socks

BroadcasterStep ==
    \/ BStart
    \/ BWake
    \/ BFire
    \/ BSerialise
    \/ \E c \in Sockets : SendReturn(c)
    \/ BGathered
    \/ \E c \in Sockets : BDrop(c)
    \/ BDropDone

ClientStep ==
    \/ \E c \in Sockets : HandleClientJoin(c)
    \/ \E c \in Sockets : HandleClientJoinFails(c)
    \/ \E c \in Sockets : ClientGone(c)
    \/ \E c \in Sockets : HandlerExit(c)

NextBroadcast == BroadcasterStep \/ ClientStep \/ BFrame \/ Tick

InitBroadcast == BcastInit({"c1", "c2"})
SpecBroadcast == InitBroadcast /\ [][NextBroadcast]_vars

\* The same system with one socket, the event loop running every task that
\* can run, time passing, and every ws.send returning.
InitDebounce == BcastInit({"c1"})
SpecDebounce ==
    /\ InitDebounce
    /\ [][NextBroadcast]_vars
    /\ WF_vars(BroadcasterStep)
    /\ WF_vars(Tick /\ timer > 0)

(***************************************************************************)
(* SpecIndex: the index aggregator (main.py:268-359, 598-602)              *)
(*                                                                         *)
(* ipc is the position of the code that runs maybe_capture_index_candle:   *)
(*   "off"      main has not reached the forced capture of line 598        *)
(*   "poll"     index_candle_loop is in its sleep                          *)
(*   "zrem", "zadd", "zcard", "ztrim"                                      *)
(*              suspended in store_closed_candle on that backend command   *)
(*   "closing"  a command raised; suspended in redis_client.close()        *)
(* While suspended, ilocals holds the locals of maybe_capture_index_candle *)
(* and store_closed_candle: stats and slot_start of lines 298-301, the     *)
(* snapshot of line 270 and the excess of line 285.                        *)
(***************************************************************************)
MaxClockSteps == 2

StartNow == 2 * INDEX_SLOT_MS + 1000

\* What init_index_storage leaves: nothing loaded and no backend, or a
\* backend that holds two candles written by earlier runs (the younger one
\* closed above its high).
LoadedCandle(slot, c) ==
    [startTime |-> slot, open |-> 0, high |-> 0, low |-> 0, close |-> c,
     netPercent |-> -c, positiveSum |-> 0, negativeSum |-> 0, count |-> 1]

Loaded == <<LoadedCandle(0, 0), LoadedCandle(INDEX_SLOT_MS, 50)>>

Range(seq) == {seq[i] : i \in DOMAIN seq}

IndexInit ==
    /\ symbols = <<"A", "B">>
    /\ LET st == ColdStore(symbols, <<>>, StartNow)
       IN /\ entries = st.entries
          /\ prev_close = st.prev_close
          /\ overview = st.overview
    /\ dirty = FALSE
    /\ now = StartNow
    /\ clients = {}
    /\ bpc = "off"
    /\ round = <<>>
    /\ socks = [c \in {"c1"} |-> "new"]
    /\ timer = 0
    /\ wire = <<>>
    /\ obs = [marks |-> 0, unbuilt |-> FALSE, age |-> DEBOUNCE_MS]
    /\ last = NoFrame
    /\ lastK = <<>>
    /\ nsteps = 0
    /\ \/ /\ redis_client = "none"
          /\ index_history = <<>>
          /\ redis_zset = {}
          /\ index_prev_close_value = INDEX_BASE_VALUE
       \/ /\ redis_client = "up"
          /\ index_history = Loaded
          /\ redis_zset = Range(Loaded)
          /\ index_prev_close_value = Loaded[Len(Loaded)].close
    /\ index_active_candle = None
    /\ ipc = "off"
    /\ ilocals = <<>>

\* Lines 305-350 after store_closed_candle has returned: the active candle
\* is dropped, and the tick goes on with the previous close that
\* store_closed_candle has set and the stats and slot_start taken before the
\* await.
CaptureResume(prevv, stats, slot) ==
    LET r == capture_rest(None, prevv, stats, slot, FALSE)
    IN /\ index_active_candle' = r.active
       /\ dirty' = IF r.marked THEN mark_dirty(dirty) ELSE dirty
       /\ ipc' = "poll"
       /\ ilocals' = <<>>

\* main, line 598: maybe_capture_index_candle(force=True).  No candle is
\* active yet, so nothing is closed and the call does not suspend.
IForce ==
    /\ ipc = "off"
    /\ LET r == capture_rest(index_active_candle, index_prev_close_value,
                             compute_d1_stats(entries), slot_start(now), TRUE)
       IN /\ index_active_candle' = r.active
          /\ dirty' = IF r.marked THEN mark_dirty(dirty) ELSE dirty
    /\ ipc' = "poll"
    /\ UNCHANGED <<storeVars, redis_client, index_history,
                   index_prev_close_value, redis_zset, ilocals, now,
                   ghostVars, clients, bpc, round, socks, timer, obs>>
    /\ wire' = <<>>

\* index_candle_loop wakes and calls maybe_capture_index_candle(), which runs
\* to its end or to the first backend command of store_closed_candle.
IPoll ==
    /\ ipc = "poll"
    /\ LET stats == compute_d1_stats(entries)
           slot == slot_start(now)
       IN IF ~IsNone(index_active_candle) /\ slot > Val(index_active_candle).startTime
          THEN LET st == store_closed_candle(index_history, Val(index_active_candle))
               IN /\ index_history' = st.index_history
                  /\ index_prev_close_value' = st.index_prev_close_value
                  /\ IF redis_client = "none"
                     THEN CaptureResume(st.index_prev_close_value, stats, slot)
                     ELSE /\ ipc' = "zrem"
                          /\ ilocals' = [stats |-> stats, slot_start |-> slot,
                                         snapshot |-> Val(index_active_candle),
                                         excess |-> 0]
                          /\ UNCHANGED <<index_active_candle, dirty>>
          ELSE LET r == capture_rest(index_active_candle, index_prev_close_value,
                                     stats, slot, FALSE)
               IN /\ index_active_candle' = r.active
                  /\ dirty' = IF r.marked THEN mark_dirty(dirty) ELSE dirty
                  /\ UNCHANGED <<index_history, index_prev_close_value, ipc, ilocals>>
    /\ UNCHANGED <<storeVars, redis_client, redis_zset, now, ghostVars,
                   clients, bpc, round, socks, timer, obs>>
    /\ wire' = <<>>

\* Line 282 returns.
IZrem ==
    /\ ipc = "zrem"
    /\ redis_zset' = zremrangebyscore(redis_zset, ilocals.snapshot.startTime)
    /\ ipc' = "zadd"
    /\ UNCHANGED <<storeVars, dirty, redis_client, index_history,
                   index_prev_close_value, index_active_candle, ilocals, now,
                   ghostVars, clients, bpc, round, socks, timer, obs>>
    /\ wire' = <<>>

\* Line 283 returns.
IZadd ==
    /\ ipc = "zadd"
    /\ redis_zset' = zadd(redis_zset, ilocals.snapshot)
    /\ ipc' = "zcard"
    /\ UNCHANGED <<storeVars, dirty, redis_client, index_history,
                   index_prev_close_value, index_active_candle, ilocals, now,
                   ghostVars, clients, bpc, round, socks, timer, obs>>
    /\ wire' = <<>>

\* Line 284 returns: with no excess store_closed_candle returns and the tick
\* goes on.
IZcard ==
    /\ ipc = "zcard"
    /\ LET excess == Cardinality(redis_zset) - INDEX_MAX_CANDLES
       IN IF excess > 0
          THEN /\ ipc' = "ztrim"
               /\ ilocals' = [ilocals EXCEPT !.excess = excess]
               /\ UNCHANGED <<index_active_candle, dirty>>
          ELSE CaptureResume(index_prev_close_value, ilocals.stats,
                             ilocals.slot_start)
    /\ UNCHANGED <<storeVars, redis_client, index_history,
                   index_prev_close_value, redis_zset, now, ghostVars,
                   clients, bpc, round, socks, timer, obs>>
    /\ wire' = <<>>

\* Line 287 returns.
IZtrim ==
    /\ ipc = "ztrim"
    /\ redis_zset' = zremrangebyrank(redis_zset, ilocals.excess)
    /\ CaptureResume(index_prev_close_value, ilocals.stats,
                             ilocals.slot_start)
    /\ UNCHANGED <<storeVars, redis_client, index_history,
                   index_prev_close_value, now, ghostVars, clients, bpc,
                   round, socks, timer, obs>>
    /\ wire' = <<>>

\* A backend command raises (lines 288-291).
IRaise ==
    /\ ipc \in {"zrem", "zadd", "zcard", "ztrim"}
    /\ ipc' = "closing"
    /\ UNCHANGED <<storeVars, dirty, redis_client, index_history,
                   index_prev_close_value, index_active_candle, redis_zset,
                   ilocals, now, ghostVars, clients, bpc, round, socks,
                   timer, obs>>
    /\ wire' = <<>>

\* A handler that keeps the client after a failed command.
redis_client_kept_after_failure == "up"

\* Line 292: redis_client = None.
redis_client_after_failure == "none"

\* Lines 291-292: close() is over, the process goes on in memory.
IClosed ==
    /\ ipc = "closing"
    /\ redis_client' = redis_client_after_failure
    /\ CaptureResume(index_prev_close_value, ilocals.stats,
                             ilocals.slot_start)
    /\ UNCHANGED <<storeVars, index_history, index_prev_close_value,
                   redis_zset, now, ghostVars, clients, bpc, round, socks,
                   timer, obs>>
    /\ wire' = <<>>

\* The wall clock enters the next slot.
ClockAdvance ==
    /\ now < StartNow + MaxClockSteps * INDEX_SLOT_MS
    /\ now' = now + INDEX_SLOT_MS
    /\ UNCHANGED <<storeVars, dirty, indexVars, ghostVars, clients, bpc,
                   round, socks, timer, obs>>
    /\ wire' = <<>>

\* D1 klines of the index specification.
IndexFrames ==
    {KlineFrame("D", "A", <<Kline(Num(0), Num(3), Num(c), Num(1), Num(10), FALSE)>>) :
        c \in {0, 4}}
    \cup {KlineFrame("D", "B", <<Kline(Num(0), Num(3), Num(4), Num(1), Num(10), FALSE)>>)}

\* A worker handles a frame while the index task is anywhere.
IFrame ==
    /\ \E msg \in IndexFrames : HandleFrame(msg)
    /\ UNCHANGED <<now, indexVars, ghostVars, clients, bpc, round, socks,
                   timer, obs>>
    /\ wire' = <<>>

\* A client joins while the index task is anywhere.
IJoin ==
    /\ \E c \in Sockets : HandleClientJoin(c)

IndexStep ==
    \/ IForce
    \/ IPoll
    \/ IZrem
    \/ IZadd
    \/ IZcard
    \/ IZtrim
    \/ IRaise
    \/ IClosed

NextIndex == IndexStep \/ BStart \/ IJoin \/ IFrame \/ ClockAdvance

SpecIndex == IndexInit /\ [][NextIndex]_vars

(***************************************************************************)
(* SpecCold: main from its first REST call on (main.py:372-417, 508-602)   *)
(*                                                                         *)
(* Before the forced capture ipc is the position of main in the cold       *)
(* start: "instruments", "tickers", "klines" (suspended in that REST       *)
(* call, ilocals holding the attempt number of http_get_json and the       *)
(* answers received so far), "off" (the store is built, line 598 is next)  *)
(* or "aborted".                                                           *)
(***************************************************************************)
HTTP_RETRY == 3

\* Instruments as de-duplicated by lines 513-519.
ColdSymbols == {<<"A">>, <<"A", "B">>}

\* The row of /v5/market/tickers used for every symbol.
ColdTickers ==
    {NoTicker, [lastPrice |-> Num(3), ts |-> Num(5000), timestamp |-> Missing]}

\* Lines 532-536 for every symbol.
cold_tickers(ents, row, t) ==
    [s \in DOMAIN ents |-> update_ticker(ents, s, row, t)[s]]

ColdInit ==
    /\ symbols = <<>>
    /\ entries = <<>>
    /\ prev_close = <<>>
    /\ overview = recompute_overview(<<>>)
    /\ dirty = FALSE
    /\ now = 1000
    /\ clients = {}
    /\ bpc = "off"
    /\ round = <<>>
    /\ socks = [c \in {"c1"} |-> "new"]
    /\ timer = 0
    /\ wire = <<>>
    /\ obs = [marks |-> 0, unbuilt |-> FALSE, age |-> DEBOUNCE_MS]
    /\ last = NoFrame
    /\ lastK = <<>>
    /\ nsteps = 0
    /\ redis_client = "none"
    /\ index_history = <<>>
    /\ index_prev_close_value = INDEX_BASE_VALUE
    /\ index_active_candle = None
    /\ redis_zset = {}
    /\ ipc = "instruments"
    /\ ilocals = [attempt |-> 1, tick_mp |-> NoTicker]

\* http_get_json returns the answer of the call main is suspended in.  The
\* last answer is followed, without a suspension that lets a task of this
\* program run, by step 4 (lines 528-553) and recompute_overview.
RestReturns ==
    /\ ipc \in ColdPositions
    /\ \/ /\ ipc = "instruments"
          /\ \E syms \in ColdSymbols : symbols' = syms
          /\ ipc' = "tickers"
          /\ ilocals' = [ilocals EXCEPT !.attempt = 1]
          /\ UNCHANGED <<entries, prev_close, overview>>
       \/ /\ ipc = "tickers"
          /\ \E row \in ColdTickers :
                ilocals' = [attempt |-> 1, tick_mp |-> row]
          /\ ipc' = "klines"
          /\ UNCHANGED storeVars
       \/ /\ ipc = "klines"
          /\ \E kl \in ColdKlines :
                LET st == ColdStore(symbols, kl, now)
                    ents == cold_tickers(st.entries, ilocals.tick_mp, now)
                IN /\ entries' = ents
                   /\ prev_close' = st.prev_close
                   /\ overview' = recompute_overview(ents)
          /\ ipc' = "off"
          /\ ilocals' = <<>>
          /\ UNCHANGED symbols
    /\ UNCHANGED <<dirty, now, redis_client, index_history,
                   index_prev_close_value, index_active_candle, redis_zset,
                   bcastVars, ghostVars>>

\* The call raises: http_get_json sleeps and tries again, or re-raises on
\* attempt HTTP_RETRY, which ends init_state_and_ws and main.
RestFails ==
    /\ ipc \in ColdPositions
    /\ IF ilocals.attempt = HTTP_RETRY
       THEN /\ ipc' = "aborted"
            /\ ilocals' = <<>>
       ELSE /\ ilocals' = [ilocals EXCEPT !.attempt = @ + 1]
            /\ UNCHANGED ipc
    /\ UNCHANGED <<storeVars, dirty, now, redis_client, index_history,
                   index_prev_close_value, index_active_candle, redis_zset,
                   bcastVars, ghostVars>>

NextCold ==
    \/ RestReturns
    \/ RestFails
    \/ IForce
    \/ BroadcasterStep
    \/ ClientStep
    \/ BFrame
    \/ Tick

SpecCold == ColdInit /\ [][NextCold]_vars

(***************************************************************************)
(* SpecTopics: the end of the cold start, where the topics of the symbol   *)
(* universe are split over the ingestion workers (main.py:434-435,         *)
(* 512-519, 557-590), and the workers' subscriptions (main.py:419-432).    *)
(*                                                                         *)
(* ilocals holds the locals of init_state_and_ws: the instruments list,    *)
(* then topics, topic_buckets and the tasks returned to main.              *)
(***************************************************************************)
\* MAX_TOPICS_PER_CONN is 200 in main.py (line 48); the model splits after
\* fewer topics so that a universe of three symbols needs three workers.
MAX_TOPICS_PER_CONN == 4
MaxInstruments == 3

\* Lines 513-519: the first occurrence of every symbol, in order.
RECURSIVE dedup(_, _, _)
dedup(instruments, seen, out) ==
    IF instruments = <<>> THEN out
    ELSE LET s == Head(instruments)
         IN IF s \in seen
            THEN dedup(Tail(instruments), seen, out)
            ELSE dedup(Tail(instruments), seen \cup {s}, Append(out, s))

\* Lines 561-563: tickers.<s>, then kline.<interval>.<s> per timeframe in
\* the order of TF_INTERVALS.
symbol_topics(s) ==
    <<<<"tickers", s>>>> \o
    [i \in 1..Len(TF_ORDER) |-> <<"kline", TF_INTERVALS[TF_ORDER[i]], s>>]

\* Lines 558-563.
RECURSIVE topics_of(_)
topics_of(syms) ==
    IF syms = <<>> THEN <<>>
    ELSE symbol_topics(Head(syms)) \o topics_of(Tail(syms))

\* Slices one element longer than asked for.
buckets_overlapping(lst, n) ==
    [k \in 1..((Len(lst) + n - 1) \div n) |->
        SubSeq(lst, (k - 1) * n + 1,
               IF k * n + 1 < Len(lst) THEN k * n + 1 ELSE Len(lst))]

\* buckets: [lst[i:i+n] for i in range(0, len(lst), n)]
buckets(lst, n) ==
    [k \in 1..((Len(lst) + n - 1) \div n) |->
        SubSeq(lst, (k - 1) * n + 1,
               IF k * n < Len(lst) THEN k * n ELSE Len(lst))]

\* Line 589: one ws_linear_conn task per bucket; a task has not run yet.
\* args is the subscription sent on the task's connection, inbox the frames
\* received on it and not yet read.
create_tasks(topic_buckets) ==
    [k \in DOMAIN topic_buckets |->
        [topics |-> topic_buckets[k], ws |-> "connecting", args |-> <<>>,
         inbox |-> <<>>]]

\* The instruments lists fetch_instruments may return, repetitions included.
InstrumentLists ==
    UNION {[1..n -> {"A", "B", "C"}] : n \in 0..MaxInstruments}

\* main is suspended in fetch_last2_klines_all (line 525); the instruments
\* were de-duplicated into symbols and the tickers fetched.
TopicsInit ==
    /\ \E instruments \in InstrumentLists :
          /\ symbols = dedup(instruments, {}, <<>>)
          /\ \E row \in ColdTickers :
                ilocals = [attempt |-> 1, tick_mp |-> row,
                           instruments |-> instruments]
    /\ entries = <<>>
    /\ prev_close = <<>>
    /\ overview = recompute_overview(<<>>)
    /\ dirty = FALSE
    /\ now = 1000
    /\ BcastIdle
    /\ last = NoFrame
    /\ lastK = <<>>
    /\ nsteps = 0
    /\ redis_client = "none"
    /\ index_history = <<>>
    /\ index_prev_close_value = INDEX_BASE_VALUE
    /\ index_active_candle = None
    /\ redis_zset = {}
    /\ ipc = "klines"

\* The klines arrive: steps 4 and 5 of init_state_and_ws run to the return
\* without a suspension (lines 528-590).
ColdStartEnds ==
    /\ ipc = "klines"
    /\ \E kl \in ColdKlines :
          LET st == ColdStore(symbols, kl, now)
              ents == cold_tickers(st.entries, ilocals.tick_mp, now)
          IN /\ entries' = ents
             /\ prev_close' = st.prev_close
             /\ overview' = recompute_overview(ents)
    /\ LET topics == topics_of(symbols)
           topic_buckets == buckets(topics, MAX_TOPICS_PER_CONN)
       IN ilocals' = [topics |-> topics, topic_buckets |-> topic_buckets,
                      tasks |-> create_tasks(topic_buckets)]
    /\ ipc' = "off"
    /\ wire' = <<>>
    /\ UNCHANGED <<symbols, dirty, now, redis_client, index_history,
                   index_prev_close_value, index_active_candle, redis_zset,
                   clients, bpc, round, socks, timer, obs, ghostVars>>

\* The tasks init_state_and_ws has returned, by their place in the list.
Workers == IF "tasks" \in DOMAIN ilocals THEN DOMAIN ilocals.tasks ELSE {}

\* ws_linear_conn, line 422: a worker is connected, for the first time or
\* after the sleep that follows a lost connection, and sends its one
\* subscription, whose args are the topics it was created with.
WorkerSubscribe ==
    /\ TasksCreated(ipc)
    /\ \E k \in Workers :
          /\ ilocals.tasks[k].ws \in {"connecting", "sleeping"}
          /\ ilocals' = [ilocals EXCEPT !.tasks[k].ws = "subscribed",
                                        !.tasks[k].args = ilocals.tasks[k].topics]
    /\ wire' = <<>>
    /\ UNCHANGED <<storeVars, dirty, now, redis_client, index_history,
                   index_prev_close_value, index_active_candle, redis_zset,
                   ipc, clients, bpc, round, socks, timer, obs, ghostVars>>

\* Lines 427-432: the connection of a worker ends and the worker sleeps
\* before it connects anew.
WorkerReconnect ==
    /\ TasksCreated(ipc)
    /\ \E k \in Workers :
          /\ ilocals.tasks[k].ws = "subscribed"
          /\ ilocals' = [ilocals EXCEPT !.tasks[k].ws = "sleeping",
                                        !.tasks[k].args = <<>>,
                                        !.tasks[k].inbox = <<>>]
    /\ wire' = <<>>
    /\ UNCHANGED <<storeVars, dirty, now, redis_client, index_history,
                   index_prev_close_value, index_active_candle, redis_zset,
                   ipc, clients, bpc, round, socks, timer, obs, ghostVars>>

NextTopics == ColdStartEnds \/ IForce \/ WorkerSubscribe \/ WorkerReconnect

SpecTopics == TopicsInit /\ [][NextTopics]_vars

(***************************************************************************)
(* SpecPut: store_closed_candle over the sorted sets the persistence       *)
(* backend may hold when the process starts (main.py:231-292)              *)
(***************************************************************************)
\* Lines 282-287 as one function of the sorted set: the put of candle c.
put(z, c) ==
    LET added == zadd(zremrangebyscore(z, c.startTime), c)
        excess == Cardinality(added) - INDEX_MAX_CANDLES
    IN IF excess > 0 THEN zremrangebyrank(added, excess) ELSE added

RECURSIVE SortByStart(_)
SortByStart(S) ==
    IF S = {} THEN <<>>
    ELSE LET m == CHOOSE x \in S : \A y \in S : x.startTime <= y.startTime
         IN <<m>> \o SortByStart(S \ {m})

\* init_index_storage, lines 245-252: the INDEX_MAX_CANDLES members of the
\* highest rank, sorted by startTime.
load_history(z) ==
    SortByStart(zremrangebyrank(z, Cardinality(z) - INDEX_MAX_CANDLES))

\* What the backend may hold: at most one candle per slot, of slots before
\* the one the process starts in, of that slot and the next, and of as many
\* later slots as the set may keep members.
PersistedSets ==
    SUBSET {LoadedCandle(k * INDEX_SLOT_MS, 50) : k \in 0..(INDEX_MAX_CANDLES + 2)}

\* main after init_index_storage and the cold start, before the forced
\* capture of line 598.
PutInit ==
    /\ symbols = <<"A", "B">>
    /\ LET st == ColdStore(symbols,
                           <<Kline(Num(0), Num(3), Num(4), Num(1), Num(10), FALSE)>>,
                           StartNow)
       IN /\ entries = st.entries
          /\ prev_close = st.prev_close
          /\ overview = st.overview
    /\ dirty = FALSE
    /\ now = StartNow
    /\ clients = {}
    /\ bpc = "off"
    /\ round = <<>>
    /\ socks = [c \in {"c1"} |-> "new"]
    /\ timer = 0
    /\ wire = <<>>
    /\ obs = [marks |-> 0, unbuilt |-> FALSE, age |-> DEBOUNCE_MS]
    /\ last = NoFrame
    /\ lastK = <<>>
    /\ nsteps = 0
    /\ redis_client = "up"
    /\ \E z \in PersistedSets :
          /\ redis_zset = z
          /\ index_history = load_history(z)
          /\ index_prev_close_value =
                IF z = {} THEN INDEX_BASE_VALUE
                ELSE load_history(z)[Len(load_history(z))].close
    /\ index_active_candle = None
    /\ ipc = "off"
    /\ ilocals = <<>>

NextPut == IndexStep \/ ClockAdvance

SpecPut == PutInit /\ [][NextPut]_vars

(***************************************************************************)
(* SpecHistory: the index task from every sorted set the backend may hold, *)
(* with clients that join and are sent a snapshot at any position of the   *)
(* task (main.py:231-369, 491-505)                                         *)
(***************************************************************************)
NextHistory == IndexStep \/ BStart \/ IJoin \/ ClockAdvance

SpecHistory == PutInit /\ [][NextHistory]_vars

(***************************************************************************)
(* SpecWorker: one ingestion worker, its connections and the frames it     *)
(* receives (main.py:419-432, 567-587)                                     *)
(***************************************************************************)
MaxInbox == 2

\* What arrives on a connection: bytes that are JSON of a frame, or not.
Raw(msg) == [json |-> TRUE, msg |-> msg]
Garbage == [json |-> FALSE, msg |-> NoFrame.msg]

\* loads(raw), line 425: the frame, or nothing when loads raises.
loads(raw) == IF raw.json THEN Some(raw.msg) ELSE None

\* A frame of the topic: a ticker, a kline that is applied, and for the D
\* interval a kline whose start does not parse, so that set_from_kline
\* raises.
FrameOf(topic) ==
    IF topic[1] = "tickers" THEN TickerFrame(topic[2], DropTicker)
    ELSE IF topic[2] = "5" THEN KlineFrame("5", topic[3], <<DropKline>>)
    ELSE KlineFrame(topic[2], topic[3],
                    <<Kline(Bad, Num(3), Num(4), Num(1), Num(10), FALSE)>>)

RawsFor(topics) == {Garbage} \cup {Raw(FrameOf(topics[i])) : i \in DOMAIN topics}

\* A receive that hands over the newest frame first.
recv_newest(inbox) ==
    [raw |-> inbox[Len(inbox)], rest |-> SubSeq(inbox, 1, Len(inbox) - 1)]

\* `async for raw in ws`, line 423: the next frame in arrival order.
recv(inbox) == [raw |-> Head(inbox), rest |-> Tail(inbox)]

\* The cold start and the forced capture are over for the universe <<"A">>;
\* the one worker has not run yet.
WorkerInit ==
    /\ symbols = <<"A">>
    /\ LET st == ColdStore(symbols, <<>>, 1000)
       IN /\ entries = st.entries
          /\ prev_close = st.prev_close
          /\ overview = st.overview
    /\ dirty = FALSE
    /\ now = 1000
    /\ BcastIdle
    /\ last = NoFrame
    /\ lastK = [p \in {"A"} \X TFS |-> <<>>]
    /\ nsteps = 0
    /\ redis_client = "none"
    /\ index_history = <<>>
    /\ index_prev_close_value = INDEX_BASE_VALUE
    /\ index_active_candle =
         capture_rest(None, INDEX_BASE_VALUE,
                      compute_d1_stats(ColdStore(symbols, <<>>, 1000).entries),
                      slot_start(1000), TRUE).active
    /\ redis_zset = {}
    /\ ipc = "poll"
    /\ LET topics == topics_of(symbols)
           topic_buckets == buckets(topics, MAX_TOPICS_PER_CONN)
       IN ilocals = [topics |-> topics, topic_buckets |-> topic_buckets,
                     tasks |-> create_tasks(topic_buckets)]

\* Upstream sends a frame on a connection that has subscribed.
FrameArrives ==
    /\ \E k \in Workers :
          /\ ilocals.tasks[k].ws = "subscribed"
          /\ Len(ilocals.tasks[k].inbox) < MaxInbox
          /\ nsteps + Len(ilocals.tasks[k].inbox) < MaxSteps
          /\ \E raw \in RawsFor(ilocals.tasks[k].topics) :
                ilocals' = [ilocals EXCEPT !.tasks[k].inbox = Append(@, raw)]
    /\ wire' = <<>>
    /\ UNCHANGED <<storeVars, dirty, now, redis_client, index_history,
                   index_prev_close_value, index_active_candle, redis_zset,
                   ipc, clients, bpc, round, socks, timer, obs, ghostVars>>

\* One iteration of `async for raw in ws` (lines 423-426): the next frame is
\* decoded and handled inside suppress(Exception); an exception that left
\* the block would end the connection (lines 430-432).
WorkerHandles ==
    /\ \E k \in Workers :
          /\ ilocals.tasks[k].ws = "subscribed"
          /\ ilocals.tasks[k].inbox # <<>>
          /\ LET r == recv(ilocals.tasks[k].inbox)
                 msg == loads(r.raw)
                 raised == IF IsNone(msg) THEN TRUE
                           ELSE on_msg(entries, prev_close, Val(msg), now).raised
             IN /\ IF IsNone(msg)
                   THEN /\ UNCHANGED <<storeVars, dirty, lastK>>
                        /\ last' = [msg |-> r.raw.msg, raised |-> TRUE,
                                    marked |-> FALSE,
                                    conn |-> ws_after_frame(TRUE)]
                        /\ nsteps' = nsteps + 1
                   ELSE HandleFrame(Val(msg)) /\ NoteFrame(Val(msg))
                /\ ilocals' =
                      IF ws_after_frame(raised) = "open"
                      THEN [ilocals EXCEPT !.tasks[k].inbox = r.rest]
                      ELSE [ilocals EXCEPT !.tasks[k].ws = "sleeping",
                                           !.tasks[k].args = <<>>,
                                           !.tasks[k].inbox = <<>>]
    /\ wire' = <<>>
    /\ UNCHANGED <<now, redis_client, index_history, index_prev_close_value,
                   index_active_candle, redis_zset, ipc, clients, bpc, round,
                   socks, timer, obs>>

NextWorker == WorkerSubscribe \/ WorkerReconnect \/ FrameArrives \/ WorkerHandles

\* The sleep of lines 428 and 431 ends, and websockets.connect tries until
\* the upstream accepts the connection, which it is taken to do.
SpecWorker ==
    WorkerInit /\ [][NextWorker]_vars /\ WF_vars(WorkerSubscribe)

(***************************************************************************)
(* SpecOrder: the broadcaster and two sockets while the wall clock moves,  *)
(* so that the updatedAt of a snapshot tells when it was built.            *)
(***************************************************************************)
OrderStart == StartNow + (MaxClockSteps - 1) * INDEX_SLOT_MS

OrderInit ==
    /\ symbols = <<"A">>
    /\ LET st == ColdStore(symbols, <<>>, OrderStart)
       IN /\ entries = st.entries
          /\ prev_close = st.prev_close
          /\ overview = st.overview
    /\ dirty = TRUE
    /\ now = OrderStart
    /\ clients = {}
    /\ bpc = "off"
    /\ round = <<>>
    /\ socks = [c \in {"c1", "c2"} |-> "new"]
    /\ timer = 0
    /\ wire = <<>>
    /\ obs = [marks |-> 1, unbuilt |-> TRUE, age |-> DEBOUNCE_MS]
    /\ last = NoFrame
    /\ lastK = <<>>
    /\ nsteps = 0
    /\ IndexForced(ColdStore(symbols, <<>>, OrderStart).entries, OrderStart)

\* One ticker of "A" without a timestamp: lastPriceUpdatedAt becomes the
\* clock value.
OrderFrames ==
    {TickerFrame("A", [lastPrice |-> Num(4), ts |-> Missing, timestamp |-> Missing])}

OFrame == WorkerFrame(OrderFrames)

NextOrder == BroadcasterStep \/ ClientStep \/ OFrame \/ Tick \/ ClockAdvance

SpecOrder == OrderInit /\ [][NextOrder]_vars

\* C17: under any frames the entries are those of the symbols of the cold
\* start, each with one metric per timeframe that names its timeframe.
C17_EntriesFixed ==
    /\ DOMAIN entries = SymbolSet
    /\ \A s \in DOMAIN entries :
          /\ entries[s].symbol = s
          /\ DOMAIN entries[s].metrics = TFS
          /\ \A tf \in TFS : entries[s].metrics[tf].timeframe = tf

\* Three frames were handled, the last one a ticker of a symbol outside the
\* universe, an earlier one having written a last price.
C17_Witness ==
    /\ nsteps = 3
    /\ last.msg = TickerFrame("Z", DropTicker)
    /\ \E s \in DOMAIN entries : ~IsNone(entries[s].lastPrice)

\* C18: a frame that is dropped (symbol outside the universe, interval
\* outside the interval map, kline topic not of three parts, empty data
\* array, topic of another prefix or none) leaves entries, prev_close and
\* overview as they were and leaves the worker's connection open.
C18_DroppedFrameChangesNothing ==
    [][(nsteps' = nsteps + 1 /\ last'.msg \in DroppedFrames)
          => /\ entries' = entries
             /\ prev_close' = prev_close
             /\ overview' = overview
             /\ last'.conn = "open"]_vars

\* After a frame that wrote a last price, a kline frame of a symbol outside
\* the universe raised in set_from_kline and the connection is still open.
C18_Witness ==
    /\ nsteps >= 2
    /\ last.msg = KlineFrame("5", "Z", <<DropKline>>)
    /\ last.raised
    /\ last.conn = "open"
    /\ \E s \in DOMAIN entries : ~IsNone(entries[s].lastPrice)

(***************************************************************************)
(* Properties of the debounce protocol and of the snapshots sent           *)
(***************************************************************************)
\* C1: no update is lost.  Whenever a handler has changed the store and
\* called mark_dirty and no snapshot was built since, the event is set; and
\* under SpecDebounce such a state leads to a snapshot build.
C1_NoLostUpdate ==
    /\ [](obs.unbuilt => dirty)
    /\ (obs.unbuilt ~> ~obs.unbuilt)

\* A frame was handled while the sends of a round were in flight.
C1_Witness ==
    /\ bpc = "sending"
    /\ round.pending # {}
    /\ obs.unbuilt
    /\ dirty

\* gainers and losers of a serialised snapshot count its own entries.
OverviewMatches(snap) ==
    \A tf \in TFS :
        /\ snap.overview[tf].gainers =
             Cardinality({s \in DOMAIN snap.entries :
                 /\ ~IsNone(snap.entries[s].metrics[tf].changePercent)
                 /\ Val(snap.entries[s].metrics[tf].changePercent) > 0})
        /\ snap.overview[tf].losers =
             Cardinality({s \in DOMAIN snap.entries :
                 /\ ~IsNone(snap.entries[s].metrics[tf].changePercent)
                 /\ Val(snap.entries[s].metrics[tf].changePercent) < 0})

\* C2, first part: a build coalesces at least one mark_dirty call made since
\* the previous clear, and comes a full debounce window after the build
\* before it.
C2_Coalescing ==
    (wire # <<>> /\ wire.kind = "build")
        => /\ wire.coalesced >= 1
           /\ wire.gap >= DEBOUNCE_MS
           /\ ~dirty
           /\ obs.marks = 0

\* C2, last part: what a round puts on the wire carries, for every symbol,
\* the lastPrice the store held when the round's snapshot was built.
C2_LastPriceOfBuild ==
    (wire # <<>> /\ wire.kind = "round")
        => \A s \in DOMAIN wire.content.entries :
              wire.content.entries[s].lastPrice = round.payload.entries[s].lastPrice

\* C2: coalescing, spacing of the rounds, and the lastPrice of the round's
\* snapshot.
C2_DebounceRound == C2_Coalescing /\ C2_LastPriceOfBuild

\* C3: what a round sends to its targets is the store as it was when
\* build_snapshot_json ran (all targets are sent the same bytes: wire.content
\* goes to every socket of wire.to).
C3_PointInTimeCopy ==
    (wire # <<>> /\ wire.kind = "round")
        => /\ wire.to = round.targets
           /\ wire.content = round.payload

\* C4: in every snapshot put on the wire, on join or in a round, the
\* overview counts the entries of that snapshot.
C4_OverviewOfSnapshot ==
    (wire # <<>> /\ wire.kind \in {"join", "round"})
        => OverviewMatches(wire.content)

\* The part of C4 that the broadcaster's own build satisfies.
C4_OverviewAtBuild ==
    (wire # <<>> /\ wire.kind = "build") => OverviewMatches(wire.content)

SentAt(c, t) ==
    /\ wire # <<>>
    /\ wire.kind \in {"join", "round"}
    /\ c \in wire.to
    /\ wire.content.updatedAt = t

\* C16: a snapshot is built only when no round is in progress, and a round
\* ends only when every send of it has returned; a socket that joins during
\* a round is not a target of that round; and no socket is sent a snapshot
\* built before one it was sent earlier.
C16_RoundsInOrder ==
    /\ [][(wire' # <<>> /\ wire'.kind = "build") =>
            (bpc = "sleep" /\ round = <<>>)]_vars
    /\ [][(bpc = "sending" /\ bpc' # "sending") => round.pending = {}]_vars
    /\ [](bpc \in {"off", "wait", "sleep"} <=> round = <<>>)
    /\ [][(wire' # <<>> /\ wire'.kind = "join" /\ round # <<>>) =>
            /\ wire'.to \cap round.targets = {}
            /\ wire'.to \subseteq clients'
            /\ round' = round]_vars
    /\ \A c \in {"c1", "c2"} :
          [](SentAt(c, OrderStart + INDEX_SLOT_MS) => []~SentAt(c, OrderStart))

\* c2 joined while the round to c1 was in progress and is now a target of
\* the next round, built at a later clock value than its join snapshot.
C16_Witness ==
    /\ bpc = "sending"
    /\ round.targets = {"c1", "c2"}
    /\ round.payload.updatedAt > OrderStart
    /\ socks["c1"] = "open"
    /\ socks["c2"] = "open"
    /\ obs.unbuilt

(***************************************************************************)
(* Properties of the cold start (checked under SpecCold)                   *)
(***************************************************************************)
\* Nothing but main has run: no frame was handled, no snapshot was built or
\* sent, no client was registered and no index candle was opened.
NothingStarted ==
    /\ bpc = "off"
    /\ ~dirty
    /\ obs.marks = 0
    /\ clients = {}
    /\ wire = <<>>
    /\ \A c \in Sockets : socks[c] = "new"
    /\ IsNone(index_active_candle)

\* C14: while the cold start is under way, or after it was aborted, nothing
\* but main has run and the store is only written by the loader; when the
\* loader is done every symbol has its entry and the overview counts the
\* entries; and an aborted main takes no further step.
C14_ColdStartFirst ==
    /\ [](ipc \in ColdPositions \cup {"off", "aborted"} => NothingStarted)
    /\ [](ipc \in ColdPositions \cup {"aborted"} => entries = <<>>)
    /\ [](ipc = "off" =>
            /\ DOMAIN entries = SymbolSet
            /\ DOMAIN prev_close = SymbolSet \X TFS
            /\ overview = recompute_overview(entries))
    /\ [][ipc = "aborted" => FALSE]_vars
    /\ [][ipc' = "aborted" => (ipc \in ColdPositions /\ ilocals.attempt = HTTP_RETRY)]_vars

\* The cold start went through with a retry, and since then a frame was
\* handled and a client was sent a snapshot.
C14_Witness ==
    /\ TasksCreated(ipc)
    /\ SymbolSet = {"A", "B"}
    /\ ~IsNone(entries["B"].lastPrice)
    /\ ~IsNone(entries["A"].metrics["D1"].changePercent)
    /\ IsNone(entries["B"].metrics["D1"].changePercent)
    /\ clients # {}
    /\ bpc = "sending"

\* A REST call failed three times and main is over.
C14_WitnessAborted ==
    /\ ipc = "aborted"
    /\ symbols # <<>>

(***************************************************************************)
(* Properties of the index (checked under SpecIndex)                       *)
(***************************************************************************)
StrictlyIncreasingSlots(h) ==
    /\ \A i \in DOMAIN h : h[i].startTime % INDEX_SLOT_MS = 0
    /\ \A i, j \in DOMAIN h : i < j => h[i].startTime < h[j].startTime

\* C5: the indexHistory of every snapshot built, in whatever position the
\* index task is, has strictly increasing startTime values that are
\* multiples of the slot size.
C5_IndexHistoryIncreasing ==
    (wire # <<>> /\ wire.kind = "join")
        => StrictlyIncreasingSlots(wire.content.indexHistory)

\* The same for the snapshots built while the index task is not suspended in
\* store_closed_candle.
C5_IncreasingOutsideStore ==
    (wire # <<>> /\ wire.kind = "join" /\ ipc \in {"off", "poll"})
        => StrictlyIncreasingSlots(wire.content.indexHistory)

WellFormed(c) ==
    /\ c.low <= c.open
    /\ c.open <= c.high
    /\ c.low <= c.close
    /\ c.close <= c.high

\* The candles frozen by this process: those of the slots it has run in.
FrozenHere == {c \in Range(index_history) : c.startTime >= slot_start(StartNow)}

\* C10: the active candle and every candle frozen by this process have
\* low <= open <= high and low <= close <= high.
C10_CandleBounds ==
    /\ ~IsNone(index_active_candle) => WellFormed(Val(index_active_candle))
    /\ \A c \in FrozenHere : WellFormed(c)

\* Two rollovers have happened; a frozen candle closed strictly inside its
\* range, and the active candle was opened by a tick with count = 0 or has
\* moved away from its open.
C10_Witness ==
    /\ Cardinality(FrozenHere) >= 2
    /\ \E c \in FrozenHere : c.low < c.close /\ c.close < c.high
    /\ ~IsNone(index_active_candle)
    /\ Val(index_active_candle).close # Val(index_active_candle).open

\* A tick that finds the clock in a later slot than the active candle.
RolloverTick ==
    /\ ipc = "poll"
    /\ ~IsNone(index_active_candle)
    /\ slot_start(now) > Val(index_active_candle).startTime
    /\ indexVars' # indexVars

\* The candle a rollover tick opens after freezing `frozen`, from the D1
\* statistics and the slot the tick read when it began.
OpenedAfter(frozen, stats, slot) ==
    IF stats.count = 0 THEN None
    ELSE LET c == -stats.netPercent
             o == frozen.close
         IN Some([startTime |-> slot, open |-> o, close |-> Round4(c),
                  high |-> Round4(IF c > o THEN c ELSE o),
                  low |-> Round4(IF c < o THEN c ELSE o),
                  netPercent |-> Round4(stats.netPercent),
                  positiveSum |-> Round4(stats.positiveSum),
                  negativeSum |-> Round4(stats.negativeSum),
                  count |-> stats.count])

\* C11: a rollover tick appends the active candle as it was to the history
\* and makes its close the previous close; when the tick ends (at once with
\* no backend, after the backend commands otherwise) the active candle is the
\* one opened at the frozen close for the tick's slot with the tick's rounded
\* negated netPercent as close, or none when the tick counted no symbol; and
\* a tick that is not forced, finds no active candle and counts no symbol
\* opens none.
C11_Rollover ==
    /\ [][RolloverTick =>
            /\ index_history'[Len(index_history')] = Val(index_active_candle)
            /\ index_prev_close_value' = Val(index_active_candle).close
            /\ ipc' = "poll" =>
                 index_active_candle' =
                    OpenedAfter(Val(index_active_candle),
                                compute_d1_stats(entries), slot_start(now))]_vars
    /\ [][(ipc \in {"zrem", "zadd", "zcard", "ztrim", "closing"} /\ ipc' = "poll") =>
            /\ index_history' = index_history
            /\ index_history[Len(index_history)] = ilocals.snapshot
            /\ index_prev_close_value' = ilocals.snapshot.close
            /\ index_active_candle' =
                 OpenedAfter(ilocals.snapshot, ilocals.stats, ilocals.slot_start)]_vars
    /\ [][(ipc = "poll" /\ IsNone(index_active_candle)
             /\ compute_d1_stats(entries).count = 0) =>
            IsNone(index_active_candle')]_vars

\* A rollover has ended with a new candle opened at the frozen candle's
\* close, in the slot after it, and closed away from its open.
C11_Witness ==
    /\ ipc = "poll"
    /\ FrozenHere # {}
    /\ ~IsNone(index_active_candle)
    /\ Val(index_active_candle).startTime =
         index_history[Len(index_history)].startTime + INDEX_SLOT_MS
    /\ Val(index_active_candle).open = index_history[Len(index_history)].close
    /\ Val(index_active_candle).open # INDEX_BASE_VALUE
    /\ Val(index_active_candle).close # Val(index_active_candle).open

Suspended == ipc \in {"zrem", "zadd", "zcard", "ztrim", "closing"}

\* C12: when a backend command of store_closed_candle has failed, the tick
\* still ends in the loop's sleep with redis_client None and the candle in
\* the in-memory history; from then on redis_client stays None, no tick
\* reaches a backend command and the persisted set is left alone; and a
\* snapshot built then still lists the last closed candles and the active
\* candle.
C12_Degradation ==
    /\ [][(ipc = "closing" /\ ipc' # ipc) =>
            /\ ipc' = "poll"
            /\ redis_client' = "none"
            /\ \E i \in DOMAIN index_history' : index_history'[i] = ilocals.snapshot]_vars
    /\ [][(redis_client = "none") =>
            /\ redis_client' = "none"
            /\ redis_zset' = redis_zset
            /\ ~Suspended'
            /\ \A c \in FrozenHere : \E i \in DOMAIN index_history' : index_history'[i] = c]_vars
    /\ [][(redis_client' = "none" /\ wire' # <<>> /\ wire'.kind = "join") =>
            LET h == wire'.content.indexHistory
            IN /\ \A i \in DOMAIN index_history :
                    i > Len(index_history) - INDEX_HISTORY_EXPORT
                        => \E j \in DOMAIN h : h[j] = index_history[i]
               /\ ~IsNone(index_active_candle) =>
                    (h # <<>> /\ h[Len(h)] = Val(index_active_candle))]_vars

\* The first rollover lost the backend before its write, a second rollover
\* followed in memory, and a client has joined since.
C12_Witness ==
    /\ redis_client = "none"
    /\ redis_zset = Range(Loaded)
    /\ Cardinality(FrozenHere) = 2
    /\ ~IsNone(index_active_candle)
    /\ ipc = "poll"
    /\ socks["c1"] = "open"

\* C13: whenever there is an active candle, its startTime is the slot of the
\* current clock value, in the store and in every snapshot built.
C13_ActiveSlotIsCurrent ==
    /\ ~IsNone(index_active_candle) =>
          Val(index_active_candle).startTime = slot_start(now)
    /\ (wire # <<>> /\ wire.kind = "join" /\ ~IsNone(index_active_candle)) =>
          wire.content.indexSummary.lastSlot = slot_start(wire.content.updatedAt)

\* What a tick leaves when it does not suspend: the candle of the slot the
\* tick read.
C13_SlotOfLastTick ==
    [][(ipc = "poll" /\ ipc' = "poll" /\ indexVars' # indexVars
          /\ ~IsNone(index_active_candle')) =>
         Val(index_active_candle').startTime = slot_start(now)]_vars

(***************************************************************************)
(* Properties of the topic partition (checked under SpecTopics)            *)
(***************************************************************************)
\* One tickers topic and one kline topic per timeframe for every symbol.
TopicUniverse ==
    {<<"tickers", s>> : s \in SymbolSet}
    \cup {<<"kline", TF_INTERVALS[tf], s>> : s \in SymbolSet, tf \in TFS}

RECURSIVE Flatten(_)
Flatten(ss) == IF ss = <<>> THEN <<>> ELSE Head(ss) \o Flatten(Tail(ss))

\* The workers whose subscription names the topic.
WorkersOf(topic) ==
    {k \in DOMAIN ilocals.tasks : topic \in Range(ilocals.tasks[k].topics)}

\* C19: once init_state_and_ws has returned, the topic list holds every
\* topic of the universe once; the buckets are non-empty, of at most
\* MAX_TOPICS_PER_CONN topics, pairwise disjoint, and concatenated in order
\* they are the topic list; there is one worker per bucket, a worker
\* subscribes to its bucket, and every topic belongs to exactly one worker.
C19_TopicPartition ==
    ipc \notin ColdPositions =>
      LET topics == ilocals.topics
          tb == ilocals.topic_buckets
          tasks == ilocals.tasks
      IN /\ Range(topics) = TopicUniverse
         /\ Len(topics) = (1 + Cardinality(TFS)) * Len(symbols)
         /\ Len(topics) = Cardinality(TopicUniverse)
         /\ \A k \in DOMAIN tb :
               Len(tb[k]) >= 1 /\ Len(tb[k]) <= MAX_TOPICS_PER_CONN
         /\ \A j, k \in DOMAIN tb :
               j # k => Range(tb[j]) \cap Range(tb[k]) = {}
         /\ Flatten(tb) = topics
         /\ DOMAIN tasks = DOMAIN tb
         /\ \A k \in DOMAIN tasks :
               /\ tasks[k].topics = tb[k]
               /\ tasks[k].ws = "subscribed" => tasks[k].args = tb[k]
         /\ \A topic \in TopicUniverse : Cardinality(WorkersOf(topic)) = 1

\* Several workers, all subscribed, and a bucket that ends between the
\* topics of one symbol.
C19_Witness ==
    /\ ipc = "poll"
    /\ Len(ilocals.topic_buckets) >= 2
    /\ \A k \in DOMAIN ilocals.tasks : ilocals.tasks[k].ws = "subscribed"
    /\ LET b1 == ilocals.topic_buckets[1]
           b2 == ilocals.topic_buckets[2]
       IN b1[Len(b1)][Len(b1[Len(b1)])] = b2[1][Len(b2[1])]

(***************************************************************************)
(* Properties of the put into the persisted sorted set (checked under      *)
(* SpecPut)                                                                *)
(***************************************************************************)
\* store_closed_candle returns from its last backend command.
PutReturns == ipc \in {"zcard", "ztrim"} /\ ipc' = "poll"

\* The trim removes members only when the bound is exceeded, and then the
\* lowest-scored ones, down to the bound.
TrimsLowest ==
    /\ (ipc = "zcard" /\ ipc' = "poll") =>
          Cardinality(redis_zset) <= INDEX_MAX_CANDLES
    /\ (ipc = "ztrim" /\ ipc' = "poll") =>
          /\ Cardinality(redis_zset') = INDEX_MAX_CANDLES
          /\ \A m \in redis_zset \ redis_zset', k \in redis_zset' :
                m.startTime < k.startTime

\* C20: when store_closed_candle(candle) returns from the backend, the
\* sorted set holds the candle as its only member of score
\* candle.startTime, it has at most INDEX_MAX_CANDLES members, only the
\* lowest-scored members were trimmed, and putting the candle once more
\* leaves the set as it is.
C20_IdempotentPutWithTrim ==
    [][/\ PutReturns =>
             /\ {m \in redis_zset' : m.startTime = ilocals.snapshot.startTime}
                   = {ilocals.snapshot}
             /\ Cardinality(redis_zset') <= INDEX_MAX_CANDLES
             /\ put(redis_zset', ilocals.snapshot) = redis_zset'
       /\ TrimsLowest]_vars

\* C20, with the candle's presence limited to where the trim leaves it:
\* when store_closed_candle(candle) returns from the backend, no other
\* member has the score candle.startTime, the candle is in the set unless
\* INDEX_MAX_CANDLES members of a higher score are, the set has at most
\* INDEX_MAX_CANDLES members, only the lowest-scored members were trimmed,
\* and putting the candle once more leaves the set as it is.
C20_PutWithTrim ==
    [][/\ PutReturns =>
             /\ {m \in redis_zset' : m.startTime = ilocals.snapshot.startTime}
                   \subseteq {ilocals.snapshot}
             /\ ilocals.snapshot \in redis_zset'
                   <=> Cardinality({m \in redis_zset' :
                          m.startTime > ilocals.snapshot.startTime})
                       < INDEX_MAX_CANDLES
             /\ Cardinality(redis_zset') <= INDEX_MAX_CANDLES
             /\ put(redis_zset', ilocals.snapshot) = redis_zset'
       /\ TrimsLowest]_vars

\* A put has replaced the member of its candle's score that the backend
\* held at the start, and the set is at its bound without the candle of
\* slot 0.
C20_Witness ==
    /\ ipc = "poll"
    /\ \E i \in DOMAIN index_history :
          index_history[i] = LoadedCandle(slot_start(StartNow), 50)
    /\ \E c \in redis_zset :
          /\ c.startTime = slot_start(StartNow)
          /\ c # LoadedCandle(slot_start(StartNow), 50)
    /\ Cardinality(redis_zset) = INDEX_MAX_CANDLES
    /\ LoadedCandle(0, 50) \notin redis_zset

(***************************************************************************)
(* Properties of the history bounds (checked under SpecHistory)            *)
(***************************************************************************)
\* e is the last min(INDEX_HISTORY_EXPORT, Len(hist)) candles of hist in
\* order, followed by the active candle if there is one.
ExportsTail(e, hist, active) ==
    LET n == IF Len(hist) < INDEX_HISTORY_EXPORT THEN Len(hist)
             ELSE INDEX_HISTORY_EXPORT
    IN /\ Len(e) <= INDEX_HISTORY_EXPORT + 1
       /\ Len(e) = n + (IF IsNone(active) THEN 0 ELSE 1)
       /\ \A i \in 1..n : e[i] = hist[Len(hist) - n + i]
       /\ ~IsNone(active) => e[Len(e)] = Val(active)

\* The state part: the history is within its bound, and a snapshot just
\* built exports its tail and the active candle.
HistoryWithinBounds ==
    /\ Len(index_history) <= INDEX_MAX_CANDLES
    /\ (wire # <<>> /\ wire.kind = "join") =>
          ExportsTail(wire.content.indexHistory, index_history,
                      index_active_candle)

\* The step in which maybe_capture_index_candle closes the active candle.
ClosesCandle ==
    /\ ipc = "poll"
    /\ ~IsNone(index_active_candle)
    /\ slot_start(now) > Val(index_active_candle).startTime
    /\ (ipc' # "poll" \/ index_active_candle' # index_active_candle)

\* h2 is h1 with candle c closed last and cut to the last INDEX_MAX_CANDLES.
ClosedLast(h1, c, h2) ==
    LET n == IF Len(h1) + 1 < INDEX_MAX_CANDLES THEN Len(h1) + 1
             ELSE INDEX_MAX_CANDLES
    IN /\ Len(h2) = n
       /\ h2[n] = c
       /\ \A i \in 1..(n - 1) : h2[i] = h1[Len(h1) - (n - 1) + i]

\* C21: the in-memory history never holds more than INDEX_MAX_CANDLES
\* candles, after a load as after any rollover; a rollover appends the
\* closed candle and keeps the most recently closed ones in order, and
\* nothing else changes the history; every exported indexHistory is the
\* last min(INDEX_HISTORY_EXPORT, len) closed candles in order followed by
\* the active candle, if there is one, as its last item.
C21_HistoryBounds ==
    [][/\ HistoryWithinBounds
       /\ HistoryWithinBounds'
       /\ ClosesCandle =>
             ClosedLast(index_history, Val(index_active_candle), index_history')
       /\ ~ClosesCandle => index_history' = index_history]_vars

\* A full history was loaded, two candles were closed since, each pushing
\* the oldest one out, and a client is sent the tail and the active candle.
C21_Witness ==
    /\ wire # <<>> /\ wire.kind = "join"
    /\ Len(index_history) = INDEX_MAX_CANDLES
    /\ Cardinality(FrozenHere) >= 2
    /\ ~IsNone(index_active_candle)
    /\ Len(wire.content.indexHistory) = INDEX_HISTORY_EXPORT + 1
    /\ \E c \in redis_zset : c \notin Range(index_history) /\ c \notin FrozenHere

(***************************************************************************)
(* Properties of the ingestion worker (checked under SpecWorker)           *)
(***************************************************************************)
\* The one worker of SpecWorker.
Worker1 == ilocals.tasks[1]

\* The step handles a frame.
HandlesFrame == nsteps' = nsteps + 1

\* The connection has sent its subscription, which names the whole bucket.
Subscribed(w) == w.ws = "subscribed" /\ w.args = w.topics

\* No connection, or one that has sent nothing and received nothing.
Unconnected(w) ==
    w.ws \in {"connecting", "sleeping"} /\ w.args = <<>> /\ w.inbox = <<>>

\* C22: a frame is handled only on a connection that has sent its
\* subscription, which carries the whole bucket and is sent once per
\* connection; the frame handled is the oldest one received and the later
\* ones stay in their order; handling a frame, also one that raises in
\* loads or in on_msg, leaves the connection and the frames after it as
\* they are; and after a connection has ended the worker subscribes again
\* on a new one.
C22_WorkerProtocol ==
    /\ [][/\ Subscribed(Worker1) \/ Unconnected(Worker1)
          /\ HandlesFrame =>
                /\ Subscribed(Worker1)
                /\ Worker1.inbox # <<>>
                /\ last'.msg = Head(Worker1.inbox).msg
                /\ last'.raised = (loads(Head(Worker1.inbox)) = None
                                   \/ on_msg(entries, prev_close,
                                             Head(Worker1.inbox).msg, now).raised)
                /\ Worker1'.inbox = Tail(Worker1.inbox)
                /\ Subscribed(Worker1')
          /\ Worker1'.args # Worker1.args =>
                \/ Unconnected(Worker1) /\ Subscribed(Worker1')
                \/ Subscribed(Worker1) /\ Worker1'.ws = "sleeping"
                   /\ Unconnected(Worker1') /\ ~HandlesFrame]_vars
    /\ (Worker1.ws = "sleeping") ~> Subscribed(Worker1)

\* A frame has raised (bytes that are no JSON, or a kline that does not
\* parse), the connection is the one it arrived on, and the frame that
\* arrived after it is next.
C22_Witness ==
    /\ last.raised
    /\ nsteps >= 2
    /\ Subscribed(Worker1)
    /\ Worker1.inbox # <<>>
    /\ Worker1.inbox[1] = Raw(TickerFrame("A", DropTicker))

(***************************************************************************)
(* The frame of an update (checked under Spec)                             *)
(***************************************************************************)
\* The pair a kline message is for, if its topic names one.
KlinePairOf(msg) ==
    IF Len(msg.topic) = 3 /\ msg.topic[1] = "kline"
         /\ ~IsNone(INTERVAL_TO_TF(msg.topic[2]))
    THEN {<<msg.topic[3], Val(INTERVAL_TO_TF(msg.topic[2]))>>}
    ELSE {}

IsKlineMsg(msg) == msg.topic # <<>> /\ msg.topic[1] = "kline"
IsTickerMsg(msg) ==
    Len(msg.topic) >= 2 /\ msg.topic[1] = "tickers"

\* The entry differs from the old one in its metrics at most.
OnlyMetrics(old, new) == [new EXCEPT !.metrics = old.metrics] = old

\* The entry differs from the old one in lastPrice and lastPriceUpdatedAt
\* at most.
OnlyLastPrice(old, new) ==
    [new EXCEPT !.lastPrice = old.lastPrice,
                !.lastPriceUpdatedAt = old.lastPriceUpdatedAt] = old

\* C23: a kline message for (sym, tf) changes at most the metric of that
\* pair and, only when it is confirmed, the prev_close of that pair; a
\* ticker message for sym changes at most lastPrice and
\* lastPriceUpdatedAt of sym; no message changes overview, the index
\* history, the active index candle or the client registry.
C23_FrameOfUpdate ==
    [][nsteps' = nsteps + 1 =>
         LET msg == last'.msg
         IN /\ DOMAIN entries' = DOMAIN entries
            /\ DOMAIN prev_close' = DOMAIN prev_close
            /\ IsKlineMsg(msg) =>
                  /\ \A s \in DOMAIN entries :
                        /\ OnlyMetrics(entries[s], entries'[s])
                        /\ \A tf \in TFS :
                              <<s, tf>> \notin KlinePairOf(msg) =>
                                 entries'[s].metrics[tf] = entries[s].metrics[tf]
                  /\ \A p \in DOMAIN prev_close :
                        prev_close'[p] # prev_close[p] =>
                           /\ p \in KlinePairOf(msg)
                           /\ msg.kdata # <<>>
                           /\ msg.kdata[Len(msg.kdata)].confirm
            /\ IsTickerMsg(msg) =>
                  /\ prev_close' = prev_close
                  /\ \A s \in DOMAIN entries :
                        IF s = TickerSym(msg.topic)
                        THEN OnlyLastPrice(entries[s], entries'[s])
                        ELSE entries'[s] = entries[s]
            /\ (~IsKlineMsg(msg) /\ ~IsTickerMsg(msg)) =>
                  entries' = entries /\ prev_close' = prev_close
            /\ overview' = overview
            /\ index_history' = index_history
            /\ index_active_candle' = index_active_candle
            /\ clients' = clients]_vars

\* A confirmed kline of (A, M5) was the last of three messages and has set
\* the pair's metric and prev_close, while a last price of "A" and a metric
\* of another pair, written before, are in the store.
C23_Witness ==
    /\ nsteps = 3
    /\ KlinePairOf(last.msg) = {<<"A", "M5">>}
    /\ ~last.raised
    /\ last.msg.kdata # <<>>
    /\ last.msg.kdata[1].confirm
    /\ prev_close[<<"A", "M5">>] = Some(last.msg.kdata[1].close.v)
    /\ entries["A"].metrics["M5"].openTime = last.msg.kdata[1].start.v
    /\ ~IsNone(entries["A"].lastPrice)
    /\ \E p \in {<<"A", "D1">>, <<"B", "M5">>} :
          /\ ~IsNone(entries[p[1]].metrics[p[2]].changePercent)
          /\ IsNone(prev_close[p])

====
